---- MODULE Spec2Model ----
(***************************************************************************)
(* Assessment Generation & Scoring Engine (BE-AILearningApp).              *)
(*                                                                         *)
(* The test-session lifecycle is modelled over the relational store        *)
(* (tables test_sessions and answers of app/db/models.py) as seen by the   *)
(* request handlers of app/api/test_sessions.py (one answer at a time,     *)
(* delayed score release) and app/api/questionset_tests.py (batch          *)
(* submission, immediate release).  Every handler runs in its own database *)
(* transaction: it first reads and validates, then commits.  The handlers  *)
(* that write are therefore split in a read step and a commit step, and    *)
(* two handlers may be in flight at once (several service instances).      *)
(*                                                                         *)
(* The generation-job tracker (table celery_tasks) is modelled by the      *)
(* second specification, JobSpec.  The experience utilities (bands,        *)
(* allocation by difficulty and by skill, parsing of the experience        *)
(* descriptor) are checked call by call under UtilSpec, and one call of    *)
(* generate_questions, loop pass by loop pass, under GenSpec.              *)
(***************************************************************************)
EXTENDS Integers, Sequences, FiniteSets, Bags, TLC

\* ------------------------------------------------------------------ bounds
\* the clock runs freely up to MaxTime; past it, only as far as a scheduled
\* score release is still due
MaxTime == 0
\* answers in one batch submission
MaxBatch == 2
\* rows of the answers table
MaxAnswerRows == 6
\* score-release tasks waiting in the scheduler, per session
MaxScheduled == 3
\* times the queue delivers the message of one task id
MaxDeliveries == 2
\* total_questions of an allocation
MaxTotal == 16
\* experience_years
MaxYears == 52
\* skills of an allocation
MaxSkills == 4
\* characters of an experience descriptor, before its "years" suffix
MaxChars == 3
\* count of a generation request
MaxCount == 4

\* ------------------------------------------------------- program constants
\* settings.SCORE_RELEASE_DELAY_HOURS: the value is the deployment's; one unit
\* of the model's clock stands for it
SCORE_RELEASE_DELAY_HOURS == 1
MAX_ANSWER_LEN == 10000
NOT_ANSWERED == "NOT_ANSWERED"

\* NULL of a nullable integer/datetime/float column
Null == -1
\* NULL of a nullable string column, and the anonymous caller
NoneStr == "None"

\* ------------------------------------------------------- static catalogue
Procs == {"p1", "p2"}
SessionIds == {"s1"}
QuestionIds == {1, 2, 3}
\* a question id no row of the questions table has
UnknownQuestionId == 9
\* selected_answer of a single submission: a label, the sentinel, a key of
\* the coding question's options, and the coding question's stored answer
AnswerValues == {"A", NOT_ANSWERED, "type", "N/A"}
\* the (question_id, selected_answer) items a batch is made of: for the mcq
\* question the right label, the sentinel and a value that is no label; for
\* the coding question text (plain and padded), the sentinel and the empty
\* text; and an answer to a question outside the set
BatchItems ==
    {<<1, "A">>, <<1, NOT_ANSWERED>>, <<1, "">>,
     <<2, "N/A">>, <<2, " N/A ">>, <<2, NOT_ANSWERED>>, <<2, "">>,
     <<3, "A">>}

\* rows of the questions table: two questions of question set qs1 (an mcq
\* and a coding question as generate_assessment_question_set stores them)
\* and one mcq question of the topic job description jd1
Question(q) ==
    CASE q = 1 -> [id |-> 1, question_set_id |-> "qs1", jd_id |-> NoneStr,
                   options |-> {"A", "B", "C", "D"}, correct_answer |-> "A"]
      [] q = 2 -> [id |-> 2, question_set_id |-> "qs1", jd_id |-> NoneStr,
                   options |-> {"type", "language", "constraints"},
                   correct_answer |-> "N/A"]
      [] q = 3 -> [id |-> 3, question_set_id |-> NoneStr, jd_id |-> "jd1",
                   options |-> {"A", "B", "C", "D"}, correct_answer |-> "B"]

\* the "type" tag of the options JSON (None when the key is absent)
OptionsType(q) == IF q = 2 THEN "coding" ELSE NoneStr

resolve_question_type(q) ==
    IF OptionsType(q) \in {"coding", "architecture"} THEN OptionsType(q) ELSE "mcq"

QuestionsOfSet(qs) == {q \in QuestionIds : Question(q).question_set_id = qs}

\* the options JSON of a question row as Python sees it: its type, for a dict
\* its keys and what .get("type") finds (None without the key)
OptionsJson(type, keys, tag) == [type |-> type, keys |-> keys, tag |-> tag]

\* a row of the questions table, as the serializer reads it
QuestionRecord(id, options, correct_answer) ==
    [id |-> id, question_text |-> "text", options |-> options,
     correct_answer |-> correct_answer]

\* the catalogue's question q as such a row
RowOf(q) ==
    QuestionRecord(q, OptionsJson("dict", Question(q).options, OptionsType(q)),
                   Question(q).correct_answer)

\* resolve_question_type on the row itself
resolve_question_type_of(question) ==
    IF question.options.type = "dict"
          /\ question.options.tag \in {"coding", "architecture"}
    THEN question.options.tag
    ELSE "mcq"

\* serialize_question_for_test with the answer key added to the payload
serialize_question_with_answer(question) ==
    LET qtype == resolve_question_type_of(question)
    IN  [id |-> question.id, question_id |-> question.id,
         question_text |-> question.question_text, question_type |-> qtype,
         correct_answer |-> question.correct_answer]
        @@ (IF qtype = "mcq" THEN [options |-> question.options]
            ELSE [meta |-> OptionsJson("dict", question.options.keys \ {"type"}, NoneStr)])

\* the payload of one question: a dict, its keys the record's fields
serialize_question_for_test(question) ==
    LET qtype == resolve_question_type_of(question)
    IN  [id |-> question.id, question_id |-> question.id,
         question_text |-> question.question_text, question_type |-> qtype]
        @@ (IF qtype = "mcq" THEN [options |-> question.options]
            ELSE [meta |-> OptionsJson("dict", question.options.keys \ {"type"}, NoneStr)])

\* [serialize_question_for_test(q) for q in questions], keyed by question id
question_list(qs) == [q \in QuestionsOfSet(qs) |-> serialize_question_for_test(RowOf(q))]
QuestionsOfJd(jd) == {q \in QuestionIds : Question(q).jd_id = jd}

\* str.strip() on the answer values of the catalogue
Strip(v) == IF v = " N/A " THEN "N/A" ELSE v

\* selected_value[:MAX_ANSWER_LEN]
Truncate(v) == IF Len(v) > MAX_ANSWER_LEN THEN SubSeq(v, 1, MAX_ANSWER_LEN) ELSE v

NormalizeAnswer(v) == Truncate(Strip(v))

\* exact value of correct / total * 100 as a fraction n/d
Rat(n, d) == [n |-> n, d |-> d]
RatEq(a, b) == a.n * b.d = b.n * a.d
NullScore == Rat(Null, 1)

ScorePercentage(correct, total) ==
    IF total > 0 THEN Rat(correct * 100, total) ELSE Rat(0, 1)

VARIABLES
    now,          \* the wall clock (datetime.utcnow / datetime.now)
    sessions,     \* table test_sessions: session_id -> row, or NoSession
    answers,      \* table answers: a bag of rows
    req,          \* per handler in flight: what it has read so far
    resp,         \* the response on its way to the caller, if any
    scheduled,    \* per session: release times of the score-release tasks
                  \* handed to the scheduler and not yet fired
    celery_tasks, \* table celery_tasks: task_id -> row
    broker,       \* per task_id: the message handed to the task queue
    worker,       \* per task_id: where the worker is in the task body
    api,          \* per task_id: where the submitting handler is
    args,         \* the call of an experience utility under examination
    ret,          \* what that call returned, once it has run
    gen,          \* generate_questions: its arguments and where it stands
    questions,    \* table questions: the rows generate_questions committed
    memory_store, \* upload_jd.memory_store: the ids of the uploaded JDs
    test_sessions, \* test_session.test_sessions: session_id -> session dict
    out           \* what the last call on the in-memory store returned

sessionVars == <<now, sessions, answers, req, resp, scheduled>>
jobVars == <<celery_tasks, broker, worker, api>>
utilVars == <<args, ret>>
genVars == <<gen, questions>>
storeVars == <<memory_store, test_sessions, out>>
vars == <<now, sessions, answers, req, resp, scheduled,
          celery_tasks, broker, worker, api, args, ret, gen, questions,
          memory_store, test_sessions, out>>

\* what the steps of one subsystem leave alone
besidesSessions == <<jobVars, utilVars, genVars, storeVars>>
besidesJobs == <<sessionVars, utilVars, genVars, storeVars>>
besidesUtils == <<sessionVars, jobVars, genVars, storeVars>>
besidesGenerator == <<sessionVars, jobVars, utilVars, storeVars>>
besidesStore == <<sessionVars, jobVars, utilVars, genVars>>

NoSession ==
    [exists |-> FALSE, question_set_id |-> NoneStr, jd_id |-> NoneStr,
     user_id |-> NoneStr, started_at |-> Null, completed_at |-> Null,
     duration_seconds |-> Null, is_completed |-> FALSE, is_scored |-> FALSE,
     score_released_at |-> Null, total_questions |-> 0, correct_answers |-> 0,
     score_percentage |-> NullScore]

\* TestSession(...) as the start handlers construct it; the columns they do
\* not set take the defaults of the model class
NewSession(qs, jd, user, total) ==
    [exists |-> TRUE, question_set_id |-> qs, jd_id |-> jd, user_id |-> user,
     started_at |-> now, completed_at |-> Null, duration_seconds |-> Null,
     is_completed |-> FALSE, is_scored |-> FALSE, score_released_at |-> Null,
     total_questions |-> total, correct_answers |-> 0,
     score_percentage |-> NullScore]

Idle == [op |-> "idle"]
NoResp == [op |-> "none", status |-> 0, detail |-> "none"]

\* a response is handed to its caller before the service takes another step
Ready == resp = NoResp

\* raise HTTPException(status_code, detail) / an uncaught exception (500)
Reject(op, code, why) == [op |-> op, status |-> code, detail |-> why]

FreeSessionIds == {s \in SessionIds : ~sessions[s].exists}
\* session_id is a fresh uuid: any id no row has; the model takes the first
FreshSessionId == CHOOSE s \in FreeSessionIds : TRUE

\* Answer(session_id, question_id, selected_answer, is_correct)
AnswerRow(s, q, v, c) ==
    [session_id |-> s, question_id |-> q, selected_answer |-> v, is_correct |-> c]

RECURSIVE SumCopies(_, _)
SumCopies(bag, rows) ==
    IF rows = {} THEN 0
    ELSE LET r == CHOOSE x \in rows : TRUE
         IN CopiesIn(r, bag) + SumCopies(bag, rows \ {r})

\* select(Answer).where(Answer.session_id == s): the rows, and their number
AnswersOf(s) == {a \in BagToSet(answers) : a.session_id = s}
CountAnswersOf(s) == SumCopies(answers, AnswersOf(s))
\* ... and Answer.question_id == q
AnswersFor(s, q) == {a \in AnswersOf(s) : a.question_id = q}
CountAnswersFor(s, q) == SumCopies(answers, AnswersFor(s, q))

\* UniqueOk as it would be were the constraint missing from the table: only
\* a flush that carries the same pair twice is refused
UniqueOk_no_table_constraint(rows) ==
    \A i, j \in 1..Len(rows) :
        i # j => ~(/\ rows[i].session_id = rows[j].session_id
                   /\ rows[i].question_id = rows[j].question_id)

\* UniqueConstraint("session_id", "question_id"): may these rows be
\* inserted together into the table as it is now
UniqueOk(rows) ==
    /\ \A i \in 1..Len(rows) : AnswersFor(rows[i].session_id, rows[i].question_id) = {}
    /\ \A i, j \in 1..Len(rows) :
          i # j => ~(/\ rows[i].session_id = rows[j].session_id
                     /\ rows[i].question_id = rows[j].question_id)

RECURSIVE InsertAll(_, _)
InsertAll(bag, rows) ==
    IF rows = <<>> THEN bag
    ELSE InsertAll(bag (+) SetToBag({Head(rows)}), Tail(rows))

\* ---------------------------------------------------------------- start
\* The row of a session the caller owns:
\* select(TestSession).where(session_id == s, user_id == current_user.id)
OwnedSession(s, u) ==
    IF s \in SessionIds /\ sessions[s].exists /\ sessions[s].user_id = u
    THEN sessions[s] ELSE NoSession

\* POST /test/sessions
start_test_session(u, jd, num_questions) ==
    /\ Ready
    /\ UNCHANGED besidesSessions
    /\ FreeSessionIds # {}
    /\ IF QuestionsOfJd(jd) = {}
       THEN /\ resp' = Reject("start_test_session", 404, "No content available")
            /\ UNCHANGED sessions
       ELSE IF Cardinality(QuestionsOfJd(jd)) < num_questions
       THEN /\ resp' = Reject("start_test_session", 400, "Not enough questions")
            /\ UNCHANGED sessions
       ELSE /\ sessions' = [sessions EXCEPT ![FreshSessionId] =
                               NewSession(NoneStr, jd, u, num_questions)]
            /\ resp' = [op |-> "start_test_session", status |-> 200, detail |-> "ok",
                        session_id |-> FreshSessionId,
                        total_questions |-> num_questions]
    /\ UNCHANGED <<now, answers, req, scheduled>>

\* POST /questionset-tests/start (u a user) and
\* POST /questionset-tests/start/anonymous (u a user or None)
start_questionset_test(op, u, qs) ==
    /\ Ready
    /\ UNCHANGED besidesSessions
    /\ FreeSessionIds # {}
    /\ IF QuestionsOfSet(qs) = {}
       THEN /\ resp' = Reject(op, 404, "QuestionSet or questions not found")
            /\ UNCHANGED sessions
       ELSE /\ sessions' = [sessions EXCEPT ![FreshSessionId] =
                               NewSession(qs, NoneStr, u, Cardinality(QuestionsOfSet(qs)))]
            /\ resp' = [op |-> op, status |-> 200, detail |-> "ok",
                        session_id |-> FreshSessionId,
                        total_questions |-> Cardinality(QuestionsOfSet(qs)),
                        questions |-> question_list(qs)]
    /\ UNCHANGED <<now, answers, req, scheduled>>

\* -------------------------------------------------------- submit_answer
\* submit_answer_read without the check of session.is_completed
submit_answer_read_no_completed_check(p, u, s, q, v) ==
    /\ Ready
    /\ UNCHANGED besidesSessions
    /\ req[p] = Idle
    /\ LET session == OwnedSession(s, u)
           op == "submit_answer"
       IN IF ~session.exists
          THEN /\ resp' = Reject(op, 404, "Session not found")
               /\ UNCHANGED req
          ELSE IF AnswersFor(s, q) # {}
          THEN /\ resp' = Reject(op, 400, "Question already answered")
               /\ UNCHANGED req
          ELSE IF q \notin QuestionIds
          THEN /\ resp' = Reject(op, 404, "Question not found")
               /\ UNCHANGED req
          ELSE IF v \notin Question(q).options
          THEN /\ resp' = Reject(op, 400, "Invalid answer")
               /\ UNCHANGED req
          ELSE /\ req' = [req EXCEPT ![p] =
                            [op |-> op,
                             row |-> AnswerRow(s, q, v, v = Question(q).correct_answer)]]
               /\ UNCHANGED resp
    /\ UNCHANGED <<now, sessions, answers, scheduled>>

\* POST /test/sessions/{session_id}/answers, up to the INSERT: the reads and
\* the checks.  A passed request remembers the row it is about to insert.
submit_answer_read(p, u, s, q, v) ==
    /\ Ready
    /\ UNCHANGED besidesSessions
    /\ req[p] = Idle
    /\ LET session == OwnedSession(s, u)
           op == "submit_answer"
       IN IF ~session.exists
          THEN /\ resp' = Reject(op, 404, "Session not found")
               /\ UNCHANGED req
          ELSE IF session.is_completed
          THEN /\ resp' = Reject(op, 400, "Session already completed")
               /\ UNCHANGED req
          ELSE IF AnswersFor(s, q) # {}
          THEN /\ resp' = Reject(op, 400, "Question already answered")
               /\ UNCHANGED req
          ELSE IF q \notin QuestionIds
          THEN /\ resp' = Reject(op, 404, "Question not found")
               /\ UNCHANGED req
          ELSE IF v \notin Question(q).options
          THEN /\ resp' = Reject(op, 400, "Invalid answer")
               /\ UNCHANGED req
          ELSE /\ req' = [req EXCEPT ![p] =
                            [op |-> op,
                             row |-> AnswerRow(s, q, v, v = Question(q).correct_answer)]]
               /\ UNCHANGED resp
    /\ UNCHANGED <<now, sessions, answers, scheduled>>

\* submit_answer_commit as an upsert (session.merge): a row already stored
\* for the pair is replaced instead of the INSERT being refused
submit_answer_commit_upsert(p) ==
    /\ Ready
    /\ UNCHANGED besidesSessions
    /\ req[p].op = "submit_answer"
    /\ BagCardinality(answers) < MaxAnswerRows
    /\ LET row == req[p].row
           kept == [a \in BagToSet(answers) \ AnswersFor(row.session_id, row.question_id)
                       |-> answers[a]]
       IN answers' = kept (+) SetToBag({row})
    /\ resp' = [op |-> "submit_answer", status |-> 200, detail |-> "success",
                question_id |-> req[p].row.question_id]
    /\ req' = [req EXCEPT ![p] = Idle]
    /\ UNCHANGED <<now, sessions, scheduled>>

\* db.add(answer_record); await db.commit(): the INSERT, which the
\* uniqueness constraint of the table rejects with an IntegrityError
submit_answer_commit(p) ==
    /\ Ready
    /\ UNCHANGED besidesSessions
    /\ req[p].op = "submit_answer"
    /\ BagCardinality(answers) < MaxAnswerRows
    /\ IF UniqueOk(<<req[p].row>>)
       THEN /\ answers' = InsertAll(answers, <<req[p].row>>)
            /\ resp' = [op |-> "submit_answer", status |-> 200, detail |-> "success",
                        question_id |-> req[p].row.question_id]
       ELSE /\ resp' = Reject("submit_answer", 500, "IntegrityError")
            /\ UNCHANGED answers
    /\ req' = [req EXCEPT ![p] = Idle]
    /\ UNCHANGED <<now, sessions, scheduled>>

\* ------------------------------------------------ complete_test_session
\* sum(1 for a in answers if a.is_correct) over the session's rows
CorrectCount(s) == SumCopies(answers, {a \in AnswersOf(s) : a.is_correct})

\* complete_test_session_read without the check of session.is_completed
complete_test_session_read_no_completed_check(p, u, s) ==
    /\ Ready
    /\ UNCHANGED besidesSessions
    /\ req[p] = Idle
    /\ LET session == OwnedSession(s, u)
           op == "complete_test_session"
       IN IF ~session.exists
          THEN /\ resp' = Reject(op, 404, "Session not found")
               /\ UNCHANGED req
          ELSE /\ req' = [req EXCEPT ![p] =
                            [op |-> op, sid |-> s, loaded |-> session,
                             correct_count |-> CorrectCount(s),
                             score_percentage |->
                                 ScorePercentage(CorrectCount(s), session.total_questions),
                             answered |-> CountAnswersOf(s)]]
               /\ UNCHANGED resp
    /\ UNCHANGED <<now, sessions, answers, scheduled>>

\* POST /test/sessions/{session_id}/complete, up to the UPDATE: the session
\* row and the answer rows are read and the score is computed from them.
complete_test_session_read(p, u, s) ==
    /\ Ready
    /\ UNCHANGED besidesSessions
    /\ req[p] = Idle
    /\ LET session == OwnedSession(s, u)
           op == "complete_test_session"
       IN IF ~session.exists
          THEN /\ resp' = Reject(op, 404, "Session not found")
               /\ UNCHANGED req
          ELSE IF session.is_completed
          THEN /\ resp' = Reject(op, 400, "Session already completed")
               /\ UNCHANGED req
          ELSE /\ req' = [req EXCEPT ![p] =
                            [op |-> op, sid |-> s, loaded |-> session,
                             correct_count |-> CorrectCount(s),
                             score_percentage |->
                                 ScorePercentage(CorrectCount(s), session.total_questions),
                             answered |-> CountAnswersOf(s)]]
               /\ UNCHANGED resp
    /\ UNCHANGED <<now, sessions, answers, scheduled>>

\* The UPDATE the unit of work flushes for a loaded row: a column is written
\* when the value assigned to it differs from the value that was loaded,
\* and is left as it is in the table otherwise.
Flush(row, loaded, assigned) ==
    [f \in DOMAIN row |->
        IF f \in DOMAIN assigned /\ assigned[f] # loaded[f] THEN assigned[f] ELSE row[f]]

\* complete_test_session_commit without the call of schedule_score_release
complete_test_session_commit_unscheduled(p) ==
    /\ Ready
    /\ UNCHANGED besidesSessions
    /\ req[p].op = "complete_test_session"
    /\ LET s == req[p].sid
           completed_at == now
           assigned == [is_completed |-> TRUE,
                        completed_at |-> completed_at,
                        duration_seconds |-> completed_at - req[p].loaded.started_at,
                        correct_answers |-> req[p].correct_count,
                        score_percentage |-> req[p].score_percentage]
       IN /\ sessions' = [sessions EXCEPT ![s] = Flush(@, req[p].loaded, assigned)]
          /\ resp' = [op |-> "complete_test_session", status |-> 200,
                      detail |-> "completed",
                      body |-> [session_id |-> s, status |-> "completed",
                                total_questions |-> req[p].loaded.total_questions,
                                answered_questions |-> req[p].answered,
                                score_will_release_at |->
                                    completed_at + SCORE_RELEASE_DELAY_HOURS]]
    /\ req' = [req EXCEPT ![p] = Idle]
    /\ UNCHANGED <<now, answers, scheduled>>

\* session.is_completed = True ... await db.commit(), then
\* schedule_score_release.delay(session_id, delay_hours)
complete_test_session_commit(p) ==
    /\ Ready
    /\ UNCHANGED besidesSessions
    /\ req[p].op = "complete_test_session"
    /\ Len(scheduled[req[p].sid]) < MaxScheduled
    /\ LET s == req[p].sid
           completed_at == now
           assigned == [is_completed |-> TRUE,
                        completed_at |-> completed_at,
                        duration_seconds |-> completed_at - req[p].loaded.started_at,
                        correct_answers |-> req[p].correct_count,
                        score_percentage |-> req[p].score_percentage]
       IN /\ sessions' = [sessions EXCEPT ![s] = Flush(@, req[p].loaded, assigned)]
          /\ scheduled' = [scheduled EXCEPT ![s] =
                              Append(@, completed_at + SCORE_RELEASE_DELAY_HOURS)]
          /\ resp' = [op |-> "complete_test_session", status |-> 200,
                      detail |-> "completed",
                      body |-> [session_id |-> s, status |-> "completed",
                                total_questions |-> req[p].loaded.total_questions,
                                answered_questions |-> req[p].answered,
                                score_will_release_at |->
                                    completed_at + SCORE_RELEASE_DELAY_HOURS]]
    /\ req' = [req EXCEPT ![p] = Idle]
    /\ UNCHANGED <<now, answers>>

\* ------------------------------------------------------- score release
RemoveAt(seq, i) == SubSeq(seq, 1, i - 1) \o SubSeq(seq, i + 1, Len(seq))

\* score_release_fire without the look at is_scored: every firing on a
\* completed session stamps the release again
score_release_fire_restamps(s, i) ==
    /\ Ready
    /\ UNCHANGED besidesSessions
    /\ i \in 1..Len(scheduled[s])
    /\ scheduled[s][i] <= now
    /\ scheduled' = [scheduled EXCEPT ![s] = RemoveAt(@, i)]
    /\ IF sessions[s].exists /\ sessions[s].is_completed
       THEN sessions' = [sessions EXCEPT ![s].is_scored = TRUE,
                                         ![s].score_released_at = now]
       ELSE UNCHANGED sessions
    /\ UNCHANGED <<now, answers, req, resp>>

\* The release task of app.core.tasks.score_release, fired by the scheduler
\* once its delay has passed: a completed, unscored session becomes scored
\* and released; a session already released is left as it is.
score_release_fire(s, i) ==
    /\ Ready
    /\ UNCHANGED besidesSessions
    /\ i \in 1..Len(scheduled[s])
    /\ scheduled[s][i] <= now
    /\ scheduled' = [scheduled EXCEPT ![s] = RemoveAt(@, i)]
    /\ IF sessions[s].exists /\ sessions[s].is_completed /\ ~sessions[s].is_scored
       THEN sessions' = [sessions EXCEPT ![s].is_scored = TRUE,
                                         ![s].score_released_at = now]
       ELSE UNCHANGED sessions
    /\ UNCHANGED <<now, answers, req, resp>>

\* ---------------------------------------------------------- read results
\* select(Answer, Question).join(...): one entry per answer row
DetailedResults(s) ==
    {[question_id |-> a.question_id,
      your_answer |-> a.selected_answer,
      correct_answer |-> Question(a.question_id).correct_answer,
      is_correct |-> a.is_correct] : a \in AnswersOf(s)}

\* get_test_results with the stored score added to the pending response
get_test_results_pending_with_score(u, s) ==
    /\ Ready
    /\ UNCHANGED besidesSessions
    /\ LET session == OwnedSession(s, u)
           Response(code, detail, body) ==
               [op |-> "get_test_results", status |-> code, detail |-> detail,
                caller |-> u, session_id |-> s, body |-> body]
       IN IF ~session.exists
          THEN resp' = Response(404, "rejected", [detail |-> "Session not found"])
          ELSE IF ~session.is_completed
          THEN resp' = Response(400, "rejected", [detail |-> "Test not yet completed"])
          ELSE IF ~session.is_scored
          THEN resp' = Response(403, "pending",
                                [message |-> "Results not yet available",
                                 completed_at |-> session.completed_at,
                                 estimated_release_at |->
                                     session.completed_at + SCORE_RELEASE_DELAY_HOURS,
                                 score_percentage |-> session.score_percentage,
                                 status |-> "processing"])
          ELSE resp' = Response(200, "results",
                                [session_id |-> s,
                                 score_percentage |-> session.score_percentage,
                                 correct_answers |-> session.correct_answers,
                                 total_questions |-> session.total_questions,
                                 completed_at |-> session.completed_at,
                                 score_released_at |-> session.score_released_at,
                                 detailed_results |-> DetailedResults(s)])
    /\ UNCHANGED <<now, sessions, answers, req, scheduled>>

\* GET /test/sessions/{session_id}/results
get_test_results(u, s) ==
    /\ Ready
    /\ UNCHANGED besidesSessions
    /\ LET session == OwnedSession(s, u)
           Response(code, detail, body) ==
               [op |-> "get_test_results", status |-> code, detail |-> detail,
                caller |-> u, session_id |-> s, body |-> body]
       IN IF ~session.exists
          THEN resp' = Response(404, "rejected", [detail |-> "Session not found"])
          ELSE IF ~session.is_completed
          THEN resp' = Response(400, "rejected", [detail |-> "Test not yet completed"])
          ELSE IF ~session.is_scored
          THEN resp' = Response(403, "pending",
                                [message |-> "Results not yet available",
                                 completed_at |-> session.completed_at,
                                 estimated_release_at |->
                                     session.completed_at + SCORE_RELEASE_DELAY_HOURS,
                                 status |-> "processing"])
          ELSE resp' = Response(200, "results",
                                [session_id |-> s,
                                 score_percentage |-> session.score_percentage,
                                 correct_answers |-> session.correct_answers,
                                 total_questions |-> session.total_questions,
                                 completed_at |-> session.completed_at,
                                 score_released_at |-> session.score_released_at,
                                 detailed_results |-> DetailedResults(s)])
    /\ UNCHANGED <<now, sessions, answers, req, scheduled>>

\* GET /questionset-tests/{session_id}/results: the session is looked up
\* among the caller's own and the anonymous sessions (the anonymous ones only
\* for a caller who is not logged in); a session that is not completed is
\* answered with partial results
get_questionset_test_results(u, s) ==
    /\ Ready
    /\ UNCHANGED besidesSessions
    /\ LET found == sessions[s].exists
                    /\ \/ sessions[s].user_id = NoneStr
                       \/ u # NoneStr /\ sessions[s].user_id = u
           session == IF found THEN sessions[s] ELSE NoSession
           is_partial == ~session.is_completed
           detailed_results == DetailedResults(s)
           Response(code, detail, body) ==
               [op |-> "get_questionset_test_results", status |-> code,
                detail |-> detail, caller |-> u, session_id |-> s, body |-> body]
       IN IF ~session.exists
          THEN resp' = Response(404, "rejected", [detail |-> "Test session not found"])
          ELSE IF session.question_set_id = NoneStr
          THEN resp' = Response(400, "rejected",
                  [detail |-> "This endpoint is only for QuestionSet-based tests"])
          ELSE resp' = Response(200, "results",
                  [session_id |-> s,
                   question_set_id |-> session.question_set_id,
                   total_questions |-> session.total_questions,
                   correct_answers |-> IF session.is_completed
                                       THEN session.correct_answers
                                       ELSE Cardinality(detailed_results),
                   score_percentage |-> IF session.is_completed
                                        THEN session.score_percentage ELSE Null,
                   completed_at |-> session.completed_at,
                   detailed_results |-> detailed_results,
                   is_partial |-> is_partial])
    /\ UNCHANGED <<now, sessions, answers, req, scheduled>>

\* GET /test/sessions/{session_id}: progress of the caller's own session.
\* time_remaining is what the timer in Redis says, 0 once the key is gone.
get_session_status(u, s, time_remaining) ==
    /\ Ready
    /\ UNCHANGED besidesSessions
    /\ LET session == OwnedSession(s, u)
           Response(code, detail, body) ==
               [op |-> "get_session_status", status |-> code, detail |-> detail,
                caller |-> u, session_id |-> s, body |-> body]
       IN IF ~session.exists
          THEN resp' = Response(404, "rejected", [detail |-> "Session not found"])
          ELSE resp' = Response(200, "status",
                  [session_id |-> s,
                   is_active |-> ~session.is_completed /\ time_remaining > 0,
                   is_completed |-> session.is_completed,
                   time_started |-> session.started_at,
                   time_remaining_seconds |-> time_remaining,
                   questions_answered |-> CountAnswersOf(s),
                   total_questions |-> session.total_questions])
    /\ UNCHANGED <<now, sessions, answers, req, scheduled>>

\* select(TestSession).where(TestSession.user_id == current_user.id)
SessionsOfUser(u) == {s \in SessionIds : sessions[s].exists /\ sessions[s].user_id = u}

\* GET /questionset-tests/my-sessions: one entry per session of the caller
list_my_test_sessions(u) ==
    /\ Ready
    /\ UNCHANGED besidesSessions
    /\ resp' = [op |-> "list_my_test_sessions", status |-> 200, detail |-> "list",
                caller |-> u,
                body |-> {[session_id |-> s,
                           question_set_id |-> sessions[s].question_set_id,
                           total_questions |-> sessions[s].total_questions,
                           correct_answers |-> sessions[s].correct_answers,
                           score_percentage |-> sessions[s].score_percentage,
                           is_completed |-> sessions[s].is_completed,
                           started_at |-> sessions[s].started_at,
                           completed_at |-> sessions[s].completed_at,
                           duration_seconds |-> sessions[s].duration_seconds] :
                          s \in SessionsOfUser(u)}]
    /\ UNCHANGED <<now, sessions, answers, req, scheduled>>

\* rows of table assessments: the active assessment built on question set qs1
Assessments == {[assessment_id |-> "a1", question_set_id |-> "qs1", is_active |-> TRUE]}

\* max(assessment_sessions, key=created_at); sessions are created in the
\* order of their started_at
LatestSession(ss) == CHOOSE s \in ss : \A t \in ss : sessions[t].started_at <= sessions[s].started_at

\* GET /api/v1/candidates/my-assessments: the active assessments whose
\* question set the caller has a session on, each with its latest session
get_my_assessments(u) ==
    /\ Ready
    /\ UNCHANGED besidesSessions
    /\ resp' = [op |-> "get_my_assessments", status |-> 200, detail |-> "list",
                caller |-> u,
                body |-> {LET latest_session ==
                                 LatestSession({s \in SessionsOfUser(u) :
                                    sessions[s].question_set_id = a.question_set_id})
                          IN  [assessment_id |-> a.assessment_id,
                               session_id |-> latest_session,
                               is_completed |-> sessions[latest_session].is_completed,
                               score_percentage |-> sessions[latest_session].score_percentage,
                               completed_at |-> sessions[latest_session].completed_at,
                               attempts_count |->
                                  Cardinality({s \in SessionsOfUser(u) :
                                     sessions[s].question_set_id = a.question_set_id})] :
                          a \in {x \in Assessments :
                                   /\ x.is_active
                                   /\ \E s \in SessionsOfUser(u) :
                                         sessions[s].question_set_id = x.question_set_id}}]
    /\ UNCHANGED <<now, sessions, answers, req, scheduled>>

\* ------------------------------------------------------- batch submission
\* GradeItem with coding and architecture answers graded like mcq answers,
\* by comparison with the stored correct_answer
GradeItem_coding_graded(s, qs, item) ==
    LET q == item[1]
        v == item[2]
    IN IF q \notin QuestionsOfSet(qs)
       THEN [error |-> "Question not found"]
       ELSE IF resolve_question_type(q) = "mcq"
       THEN IF v = NOT_ANSWERED
            THEN [error |-> "", row |-> AnswerRow(s, q, NormalizeAnswer(v), FALSE)]
            ELSE IF v \notin Question(q).options
            THEN [error |-> "Invalid answer"]
            ELSE [error |-> "",
                  row |-> AnswerRow(s, q, NormalizeAnswer(v),
                                    v = Question(q).correct_answer)]
       ELSE IF v = NOT_ANSWERED
            THEN [error |-> "", row |-> AnswerRow(s, q, NormalizeAnswer(v), FALSE)]
            ELSE IF Strip(v) = ""
            THEN [error |-> "Answer cannot be empty"]
            ELSE [error |-> "",
                  row |-> AnswerRow(s, q, NormalizeAnswer(v),
                                    v = Question(q).correct_answer)]

\* GradeItem without the test "selected_answer not in question.options":
\* any value given for an mcq question is compared and stored
GradeItem_any_mcq_value(s, qs, item) ==
    LET q == item[1]
        v == item[2]
    IN IF q \notin QuestionsOfSet(qs)
       THEN [error |-> "Question not found"]
       ELSE IF resolve_question_type(q) = "mcq"
       THEN IF v = NOT_ANSWERED
            THEN [error |-> "", row |-> AnswerRow(s, q, NormalizeAnswer(v), FALSE)]
            ELSE [error |-> "",
                  row |-> AnswerRow(s, q, NormalizeAnswer(v),
                                    v = Question(q).correct_answer)]
       ELSE IF v = NOT_ANSWERED
            THEN [error |-> "", row |-> AnswerRow(s, q, NormalizeAnswer(v), FALSE)]
            ELSE IF Strip(v) = ""
            THEN [error |-> "Answer cannot be empty"]
            ELSE [error |-> "", row |-> AnswerRow(s, q, NormalizeAnswer(v), FALSE)]

\* The body of "for answer_submit in request.answers" for one item: the
\* error it raises, or the Answer record it appends.
GradeItem(s, qs, item) ==
    LET q == item[1]
        v == item[2]
    IN IF q \notin QuestionsOfSet(qs)
       THEN [error |-> "Question not found"]
       ELSE IF resolve_question_type(q) = "mcq"
       THEN IF v = NOT_ANSWERED
            THEN [error |-> "", row |-> AnswerRow(s, q, NormalizeAnswer(v), FALSE)]
            ELSE IF v \notin Question(q).options
            THEN [error |-> "Invalid answer"]
            ELSE [error |-> "",
                  row |-> AnswerRow(s, q, NormalizeAnswer(v),
                                    v = Question(q).correct_answer)]
       ELSE IF v = NOT_ANSWERED
            THEN [error |-> "", row |-> AnswerRow(s, q, NormalizeAnswer(v), FALSE)]
            ELSE IF Strip(v) = ""
            THEN [error |-> "Answer cannot be empty"]
            ELSE [error |-> "", row |-> AnswerRow(s, q, NormalizeAnswer(v), FALSE)]

\* The whole loop from item i on, rows being the records appended so far:
\* the first error, or the list answer_records
RECURSIVE GradeFrom(_, _, _, _, _)
GradeFrom(s, qs, batch, i, rows) ==
    IF i > Len(batch) THEN [error |-> "", rows |-> rows]
    ELSE LET g == GradeItem(s, qs, batch[i])
         IN IF g.error # "" THEN [error |-> g.error, rows |-> <<>>]
            ELSE GradeFrom(s, qs, batch, i + 1, Append(rows, g.row))

GradeBatch(s, qs, batch) == GradeFrom(s, qs, batch, 1, <<>>)

\* correct_count, incremented once per record with is_correct
CountCorrectRows(rows) == Cardinality({i \in 1..Len(rows) : rows[i].is_correct})

Batches == UNION {[1..n -> BatchItems] : n \in 0..MaxBatch}

\* The checks both batch handlers make on the session row they found
BatchSessionError(session) ==
    IF session.is_completed THEN "Test session already completed"
    ELSE IF session.question_set_id = NoneStr
    THEN "This endpoint is only for QuestionSet-based tests"
    ELSE ""

\* submit_questionset_answers with every record committed on its own: when
\* the INSERT of a later record is refused, the first record stays stored
submit_questionset_answers_commit_per_record(u, s) ==
    /\ Ready
    /\ UNCHANGED besidesSessions
    /\ LET session == OwnedSession(s, u)
           op == "submit_questionset_answers"
       IN IF ~session.exists
          THEN /\ resp' = Reject(op, 404, "Test session not found")
               /\ UNCHANGED <<sessions, answers>>
          ELSE IF BatchSessionError(session) # ""
          THEN /\ resp' = Reject(op, 400, BatchSessionError(session))
               /\ UNCHANGED <<sessions, answers>>
          ELSE \E batch \in Batches :
               LET g == GradeBatch(s, session.question_set_id, batch)
                   correct_count == CountCorrectRows(g.rows)
                   completed_at == now
                   score_percentage == ScorePercentage(correct_count, session.total_questions)
                   assigned == [is_completed |-> TRUE,
                                completed_at |-> completed_at,
                                duration_seconds |-> completed_at - session.started_at,
                                correct_answers |-> correct_count,
                                score_percentage |-> score_percentage,
                                is_scored |-> TRUE,
                                score_released_at |-> completed_at]
               IN IF g.error # ""
                  THEN /\ resp' = Reject(op, 400, g.error)
                       /\ UNCHANGED <<sessions, answers>>
                  ELSE IF ~UniqueOk(g.rows)
                  THEN /\ resp' = Reject(op, 500, "IntegrityError")
                       /\ answers' = IF UniqueOk(<<g.rows[1]>>)
                                     THEN InsertAll(answers, <<g.rows[1]>>)
                                     ELSE answers
                       /\ UNCHANGED sessions
                  ELSE /\ answers' = InsertAll(answers, g.rows)
                       /\ sessions' = [sessions EXCEPT ![s] = Flush(@, session, assigned)]
                       /\ resp' = [op |-> op, status |-> 200, detail |-> "results",
                                   session_id |-> s,
                                   body |-> [session_id |-> s,
                                             total_questions |-> session.total_questions,
                                             correct_answers |-> correct_count,
                                             score_percentage |-> score_percentage,
                                             completed_at |-> completed_at,
                                             time_taken_seconds |->
                                                 completed_at - session.started_at]]
    /\ UNCHANGED <<now, req, scheduled>>

\* POST /questionset-tests/submit: one transaction that inserts every answer
\* of the batch and completes, scores and releases the session
submit_questionset_answers(u, s) ==
    /\ Ready
    /\ UNCHANGED besidesSessions
    /\ LET session == OwnedSession(s, u)
           op == "submit_questionset_answers"
       IN IF ~session.exists
          THEN /\ resp' = Reject(op, 404, "Test session not found")
               /\ UNCHANGED <<sessions, answers>>
          ELSE IF BatchSessionError(session) # ""
          THEN /\ resp' = Reject(op, 400, BatchSessionError(session))
               /\ UNCHANGED <<sessions, answers>>
          ELSE \E batch \in Batches :
               LET g == GradeBatch(s, session.question_set_id, batch)
                   correct_count == CountCorrectRows(g.rows)
                   completed_at == now
                   score_percentage == ScorePercentage(correct_count, session.total_questions)
                   assigned == [is_completed |-> TRUE,
                                completed_at |-> completed_at,
                                duration_seconds |-> completed_at - session.started_at,
                                correct_answers |-> correct_count,
                                score_percentage |-> score_percentage,
                                is_scored |-> TRUE,
                                score_released_at |-> completed_at]
               IN IF g.error # ""
                  THEN /\ resp' = Reject(op, 400, g.error)
                       /\ UNCHANGED <<sessions, answers>>
                  ELSE IF ~UniqueOk(g.rows)
                  THEN /\ resp' = Reject(op, 500, "IntegrityError")
                       /\ UNCHANGED <<sessions, answers>>
                  ELSE /\ answers' = InsertAll(answers, g.rows)
                       /\ sessions' = [sessions EXCEPT ![s] = Flush(@, session, assigned)]
                       /\ resp' = [op |-> op, status |-> 200, detail |-> "results",
                                   session_id |-> s,
                                   body |-> [session_id |-> s,
                                             total_questions |-> session.total_questions,
                                             correct_answers |-> correct_count,
                                             score_percentage |-> score_percentage,
                                             completed_at |-> completed_at,
                                             time_taken_seconds |->
                                                 completed_at - session.started_at]]
    /\ UNCHANGED <<now, req, scheduled>>

\* POST /questionset-tests/submit/anonymous: after the checks on the session
\* the handler uses the names questions, correct_count and answer_records,
\* none of which it (or the module) defines: it raises NameError before it
\* adds or changes any row.
submit_questionset_answers_anonymous(u, s) ==
    /\ Ready
    /\ UNCHANGED besidesSessions
    /\ LET session == IF s \in SessionIds THEN sessions[s] ELSE NoSession
           op == "submit_questionset_answers_anonymous"
       IN IF ~session.exists
          THEN resp' = Reject(op, 404, "Test session not found")
          ELSE IF session.user_id # NoneStr /\ u # session.user_id
          THEN resp' = Reject(op, 403, "Unauthorized submission")
          ELSE IF BatchSessionError(session) # ""
          THEN resp' = Reject(op, 400, BatchSessionError(session))
          ELSE resp' = Reject(op, 500, "NameError")
    /\ UNCHANGED <<now, sessions, answers, req, scheduled>>

\* the response reaches the caller
deliver_response ==
    /\ ~Ready
    /\ UNCHANGED besidesSessions
    /\ resp' = NoResp
    /\ UNCHANGED <<now, sessions, answers, req, scheduled>>

\* ======================================================================
\* Generation-job tracker: table celery_tasks, the task queue, the workers
\* ======================================================================
\* task ids (AsyncResult.id, a fresh uuid per submitted job)
TaskIds == {"t1", "t2"}

NoTask ==
    [exists |-> FALSE, task_name |-> NoneStr, status |-> NoneStr,
     result |-> NoneStr, error |-> NoneStr]

\* CeleryTask(task_id=..., task_name=..., status=...): result and error NULL
NewTask(name, status) ==
    [exists |-> TRUE, task_name |-> name, status |-> status,
     result |-> NoneStr, error |-> NoneStr]

NoMessage == [task |-> "none", deliveries |-> 0]
NotSubmitted == [op |-> "none", pc |-> "none"]
WorkerIdle == [pc |-> "idle"]

\* POST upload of a question document (admin caller), first half:
\* index_question_document_task.apply_async puts the message on the queue
\* under a new task id
upload_question_doc_enqueue(t) ==
    /\ api[t] = NotSubmitted
    /\ broker' = [broker EXCEPT
                    ![t] = [task |-> "index_question_document_task", deliveries |-> 0]]
    /\ api' = [api EXCEPT ![t] = [op |-> "upload_question_doc", pc |-> "enqueued"]]
    /\ UNCHANGED <<celery_tasks, worker>>
    /\ UNCHANGED besidesJobs

\* second half: the CeleryTask row is added with status PENDING.  task_id is
\* unique: the commit raises when a row of that task id is there already,
\* and the handler answers 500
upload_question_doc_record(t) ==
    /\ api[t] = [op |-> "upload_question_doc", pc |-> "enqueued"]
    /\ IF celery_tasks[t].exists
       THEN /\ api' = [api EXCEPT ![t].pc = "failed"]
            /\ UNCHANGED celery_tasks
       ELSE /\ celery_tasks' = [celery_tasks EXCEPT
                                  ![t] = NewTask("index_question_document", "PENDING")]
            /\ api' = [api EXCEPT ![t].pc = "done"]
    /\ UNCHANGED <<broker, worker>>
    /\ UNCHANGED besidesJobs

\* POST /question-generation/start (admin caller), first half: send_task
start_question_generation_send(t) ==
    /\ api[t] = NotSubmitted
    /\ broker' = [broker EXCEPT
                    ![t] = [task |-> "run_question_generation", deliveries |-> 0]]
    /\ api' = [api EXCEPT ![t] = [op |-> "start_question_generation", pc |-> "enqueued"]]
    /\ UNCHANGED <<celery_tasks, worker>>
    /\ UNCHANGED besidesJobs

\* second half: INSERT of the PENDING row; an IntegrityError on the unique
\* task_id is not caught
start_question_generation_record(t) ==
    /\ api[t] = [op |-> "start_question_generation", pc |-> "enqueued"]
    /\ IF celery_tasks[t].exists
       THEN /\ api' = [api EXCEPT ![t].pc = "failed"]
            /\ UNCHANGED celery_tasks
       ELSE /\ celery_tasks' = [celery_tasks EXCEPT
                                  ![t] = NewTask("question_generation", "PENDING")]
            /\ api' = [api EXCEPT ![t].pc = "done"]
    /\ UNCHANGED <<broker, worker>>
    /\ UNCHANGED besidesJobs

\* A worker runs the task body for a message of the queue, with
\* self.request.id = t.  The queue delivers a message at least once: a retry
\* or a redelivery runs the body again under the same task id.
Delivered(t, task) ==
    /\ broker[t].task = task
    /\ broker[t].deliveries < MaxDeliveries
    /\ worker[t] = WorkerIdle
    /\ broker' = [broker EXCEPT ![t].deliveries = @ + 1]

\* index_question_document_task, up to the call of index_document: the row
\* of the task id, if there is one, is set to STARTED
index_question_document_task_begin(t) ==
    /\ Delivered(t, "index_question_document_task")
    /\ celery_tasks' = IF celery_tasks[t].exists
                       THEN [celery_tasks EXCEPT ![t].status = "STARTED"]
                       ELSE celery_tasks
    /\ worker' = [worker EXCEPT ![t] = [pc |-> "index_document"]]
    /\ UNCHANGED api
    /\ UNCHANGED besidesJobs

\* index_document returned or raised: the row, if there is one, is marked
\* SUCCESS with the result or FAILURE with the error
index_question_document_task_end(t, raised) ==
    /\ worker[t] = [pc |-> "index_document"]
    /\ celery_tasks' =
          IF ~celery_tasks[t].exists THEN celery_tasks
          ELSE IF raised
               THEN [celery_tasks EXCEPT ![t].status = "FAILURE", ![t].error = "str(e)"]
               ELSE [celery_tasks EXCEPT ![t].status = "SUCCESS", ![t].result = "indexed"]
    /\ worker' = [worker EXCEPT ![t] = WorkerIdle]
    /\ UNCHANGED <<broker, api>>
    /\ UNCHANGED besidesJobs

\* run_question_generation, up to the call of generate_questions: the task
\* INSERTs its own row with status STARTED, outside the try block, so an
\* IntegrityError on the unique task_id ends the task there
run_question_generation_begin(t) ==
    /\ Delivered(t, "run_question_generation")
    /\ IF celery_tasks[t].exists
       THEN UNCHANGED <<celery_tasks, worker>>
       ELSE /\ celery_tasks' = [celery_tasks EXCEPT
                                  ![t] = NewTask("run_question_generation", "STARTED")]
            /\ worker' = [worker EXCEPT ![t] = [pc |-> "generate_questions"]]
    /\ UNCHANGED api
    /\ UNCHANGED besidesJobs

\* generate_questions returned or raised: query(...).one() and the update
run_question_generation_end(t, raised) ==
    /\ worker[t] = [pc |-> "generate_questions"]
    /\ celery_tasks' =
          IF ~celery_tasks[t].exists THEN celery_tasks
          ELSE IF raised
               THEN [celery_tasks EXCEPT ![t].status = "FAILURE", ![t].error = "str(e)"]
               ELSE [celery_tasks EXCEPT ![t].status = "SUCCESS", ![t].result = "created"]
    /\ worker' = [worker EXCEPT ![t] = WorkerIdle]
    /\ UNCHANGED <<broker, api>>
    /\ UNCHANGED besidesJobs

\* GET /question-generation/status/{task_id}: the row of the task id as it
\* is now, or 404
get_generation_status(task_id) ==
    /\ resp' = IF ~celery_tasks[task_id].exists
               THEN [op |-> "get_generation_status", status |-> 404,
                     detail |-> "Task not found", task_id |-> task_id]
               ELSE [op |-> "get_generation_status", status |-> 200,
                     detail |-> "status", task_id |-> task_id,
                     body |-> [status |-> celery_tasks[task_id].status,
                               result |-> celery_tasks[task_id].result,
                               error |-> celery_tasks[task_id].error]]
    /\ UNCHANGED <<now, sessions, answers, req, scheduled>>
    /\ UNCHANGED jobVars
    /\ UNCHANGED <<utilVars, genVars, storeVars>>

\* ======================================================================
\* Experience utilities (app/utils/experience_based_questions.py) and the
\* per-skill allocation of app/services/assessment_generator.py
\* ======================================================================
\* The functions are pure.  A call is drawn in UtilInit and the function is
\* applied by one step.  A fraction (a Python float such as 0.2) is held as
\* its number of hundredths; products and sums are taken exactly.  For the
\* totals drawn here the double-precision product total * fraction lies on
\* the same side of every half as the exact product (the first total where
\* it does not is 45, with 0.7), so round() of the one is round() of the
\* other.

EXPERIENCE_BANDS_mid_level_overweight ==
    << [min_years |-> 0, max_years |-> 3,
        difficulty_distribution |-> [easy |-> 100, medium |-> 0, hard |-> 0],
        passing_score_threshold |-> 60],
       [min_years |-> 4, max_years |-> 6,
        difficulty_distribution |-> [easy |-> 20, medium |-> 70, hard |-> 20],
        passing_score_threshold |-> 70],
       [min_years |-> 7, max_years |-> 11,
        difficulty_distribution |-> [easy |-> 0, medium |-> 50, hard |-> 50],
        passing_score_threshold |-> 75],
       [min_years |-> 12, max_years |-> 50,
        difficulty_distribution |-> [easy |-> 0, medium |-> 30, hard |-> 70],
        passing_score_threshold |-> 80] >>

\* the band table, first row first
EXPERIENCE_BANDS ==
    << [min_years |-> 0, max_years |-> 3,
        difficulty_distribution |-> [easy |-> 100, medium |-> 0, hard |-> 0],
        passing_score_threshold |-> 60],
       [min_years |-> 4, max_years |-> 6,
        difficulty_distribution |-> [easy |-> 20, medium |-> 70, hard |-> 10],
        passing_score_threshold |-> 70],
       [min_years |-> 7, max_years |-> 11,
        difficulty_distribution |-> [easy |-> 0, medium |-> 50, hard |-> 50],
        passing_score_threshold |-> 75],
       [min_years |-> 12, max_years |-> 50,
        difficulty_distribution |-> [easy |-> 0, medium |-> 30, hard |-> 70],
        passing_score_threshold |-> 80] >>

\* for band in EXPERIENCE_BANDS: if band.min_years <= y <= band.max_years;
\* past the loop, EXPERIENCE_BANDS[-1]
BandOf(experience_years) ==
    LET hits == {i \in 1..Len(EXPERIENCE_BANDS) :
                    /\ EXPERIENCE_BANDS[i].min_years <= experience_years
                    /\ experience_years <= EXPERIENCE_BANDS[i].max_years}
    IN  IF hits # {}
        THEN EXPERIENCE_BANDS[CHOOSE i \in hits : \A j \in hits : i <= j]
        ELSE EXPERIENCE_BANDS[Len(EXPERIENCE_BANDS)]

get_difficulty_distribution(experience_years) ==
    BandOf(experience_years).difficulty_distribution

get_passing_score_threshold(experience_years) ==
    BandOf(experience_years).passing_score_threshold

get_experience_level_label_bands_shifted(experience_years) ==
    IF experience_years <= 4 THEN "junior"
    ELSE IF experience_years <= 7 THEN "mid-level"
    ELSE IF experience_years <= 12 THEN "senior"
    ELSE "expert"

get_experience_level_label(experience_years) ==
    IF experience_years <= 3 THEN "junior"
    ELSE IF experience_years <= 6 THEN "mid-level"
    ELSE IF experience_years <= 11 THEN "senior"
    ELSE "expert"

\* Python's round() of the float num / den (num >= 0, den > 0): to the
\* nearest integer, a half to the even neighbour
round(num, den) ==
    LET q == num \div den
        r == num % den
    IN  IF 2 * r < den THEN q
        ELSE IF 2 * r > den THEN q + 1
        ELSE IF q % 2 = 0 THEN q ELSE q + 1

calculate_question_count_per_difficulty_all_rounded(total_questions, difficulty_distribution) ==
    [easy |-> round(total_questions * difficulty_distribution.easy, 100),
     medium |-> round(total_questions * difficulty_distribution.medium, 100),
     hard |-> round(total_questions * difficulty_distribution.hard, 100)]

\* the loop over ["easy", "medium", "hard"]: the first two are rounded, the
\* last takes what remains
calculate_question_count_per_difficulty(total_questions, difficulty_distribution) ==
    LET easy == round(total_questions * difficulty_distribution.easy, 100)
        medium == round(total_questions * difficulty_distribution.medium, 100)
    IN  [easy |-> easy, medium |-> medium,
         hard |-> (total_questions - easy) - medium]

\* 0.99 <= total <= 1.01, in hundredths
validate_difficulty_distribution(distribution) ==
    LET total == distribution.easy + distribution.medium + distribution.hard
    IN  99 <= total /\ total <= 101

calculate_question_count_per_skill_extra_to_last(total_questions, num_skills) ==
    LET base_count == total_questions \div num_skills
        remainder == total_questions % num_skills
    IN  [i \in 0..(num_skills - 1) |->
            base_count + (IF i >= num_skills - remainder THEN 1 ELSE 0)]

\* the dictionary {"skill_<i>": count}, by i
calculate_question_count_per_skill(total_questions, num_skills) ==
    LET base_count == total_questions \div num_skills
        remainder == total_questions % num_skills
    IN  [i \in 0..(num_skills - 1) |->
            base_count + (IF i < remainder THEN 1 ELSE 0)]

\* generate_questions_with_experience_config, the branch of a given skills
\* list: skills_config[skill] is assigned in list order, so a skill named
\* twice keeps the count of its last position
skills_config_of(total_questions, skills) ==
    LET num_skills == Len(skills)
        questions_per_skill == total_questions \div num_skills
        remainder == total_questions % num_skills
        last(skill) == CHOOSE i \in 1..num_skills :
                          /\ skills[i] = skill
                          /\ \A j \in 1..num_skills : skills[j] = skill => j <= i
    IN  [skill \in {skills[i] : i \in 1..num_skills} |->
            questions_per_skill + (IF last(skill) - 1 < remainder THEN 1 ELSE 0)]

\* ---------------------------------------------------------------- strings
\* a string is the sequence of its characters
Digits == <<"0", "1", "2", "3", "4", "5", "6", "7", "8", "9">>
IsDigit(c) == \E i \in 1..10 : Digits[i] = c
DigitValue(c) == (CHOOSE i \in 1..10 : Digits[i] = c) - 1
IsSpace(c) == c \in {" ", "\t"}

\* str.lower(), on the letters that occur
lower_char(c) ==
    CASE c = "Y" -> "y" [] c = "E" -> "e" [] c = "A" -> "a"
      [] c = "R" -> "r" [] c = "S" -> "s" [] OTHER -> c
lower(s) == [i \in 1..Len(s) |-> lower_char(s[i])]

StartsWith(s, old) ==
    Len(old) <= Len(s) /\ SubSeq(s, 1, Len(old)) = old

\* str.replace(old, new): the occurrences from the left, not overlapping
RECURSIVE replace(_, _, _)
replace(s, old, new) ==
    IF s = <<>> THEN <<>>
    ELSE IF StartsWith(s, old)
         THEN new \o replace(SubSeq(s, Len(old) + 1, Len(s)), old, new)
         ELSE <<Head(s)>> \o replace(Tail(s), old, new)

\* str.strip()
RECURSIVE lstrip(_)
lstrip(s) == IF s # <<>> /\ IsSpace(Head(s)) THEN lstrip(Tail(s)) ELSE s
RECURSIVE rstrip(_)
rstrip(s) ==
    IF s # <<>> /\ IsSpace(s[Len(s)]) THEN rstrip(SubSeq(s, 1, Len(s) - 1)) ELSE s
strip(s) == rstrip(lstrip(s))

\* c in s
Contains(s, c) == \E i \in 1..Len(s) : s[i] = c

\* str.split(sep): the fields between the separators
RECURSIVE split(_, _)
split(s, sep) ==
    IF ~Contains(s, sep) THEN <<s>>
    ELSE LET i == CHOOSE k \in 1..Len(s) :
                     s[k] = sep /\ \A j \in 1..(k - 1) : s[j] # sep
         IN  <<SubSeq(s, 1, i - 1)>> \o split(SubSeq(s, i + 1, Len(s)), sep)

RECURSIVE DecimalValue(_)
DecimalValue(s) ==
    IF s = <<>> THEN 0
    ELSE 10 * DecimalValue(SubSeq(s, 1, Len(s) - 1)) + DigitValue(s[Len(s)])

\* int(s): blanks around, an optional sign, then decimal digits and nothing
\* else; anything else raises ValueError
Returned(value) == [exc |-> NoneStr, value |-> value]
Raised(exc) == [exc |-> exc, value |-> 0]
int(s) ==
    LET t == strip(s)
        signed == t # <<>> /\ t[1] \in {"+", "-"}
        body == IF signed THEN Tail(t) ELSE t
    IN  IF body # <<>> /\ \A i \in 1..Len(body) : IsDigit(body[i])
        THEN Returned(IF signed /\ t[1] = "-"
                      THEN 0 - DecimalValue(body) ELSE DecimalValue(body))
        ELSE Raised("ValueError")

Years == <<"y", "e", "a", "r", "s">>
Year == <<"y", "e", "a", "r">>

\* the body of the try block
parse_experience_years_try(experience_str) ==
    LET clean == strip(replace(replace(lower(experience_str), Years, <<>>), Year, <<>>))
    IN  IF Contains(clean, "+")
        THEN int(strip(replace(clean, <<"+">>, <<>>)))
        ELSE IF Contains(clean, "-")
        THEN LET parts == split(clean, "-")
                 min_years == int(strip(parts[1]))
                 max_years == int(strip(parts[2]))
             IN  IF min_years.exc # NoneStr THEN min_years
                 ELSE IF max_years.exc # NoneStr THEN max_years
                 ELSE Returned((min_years.value + max_years.value) \div 2)
        ELSE int(strip(clean))

parse_experience_years_uncaught(experience_str) ==
    parse_experience_years_try(experience_str)

\* except (ValueError, IndexError): return 5
parse_experience_years(experience_str) ==
    LET r == parse_experience_years_try(experience_str)
    IN  IF r.exc \in {"ValueError", "IndexError"} THEN Returned(5) ELSE r

\* ------------------------------------------------------- the calls drawn
NoDistribution == [easy |-> 0, medium |-> 0, hard |-> 0]
Call(fn, total_questions, difficulty_distribution, experience_years, experience_str, num_skills, skills) ==
    [fn |-> fn, total_questions |-> total_questions,
     difficulty_distribution |-> difficulty_distribution,
     experience_years |-> experience_years, experience_str |-> experience_str,
     num_skills |-> num_skills, skills |-> skills]
NoCall == Call("none", 0, NoDistribution, 0, <<>>, 1, <<>>)

UtilFunctions ==
    {"get_difficulty_distribution", "get_passing_score_threshold",
     "get_experience_level_label", "calculate_question_count_per_difficulty",
     "parse_experience_years", "calculate_question_count_per_skill",
     "generate_questions_with_experience_config",
     "get_assessment_config_for_candidate",
     "get_adjusted_difficulty_distribution",
     "serialize_question_for_test"}
NotCalled == [f \in UtilFunctions |-> {}]

Fractions == {0, 10, 20, 30, 33, 34, 50, 70, 100}
Distributions ==
    {d \in [easy : Fractions, medium : Fractions, hard : Fractions] :
        validate_difficulty_distribution(d)}

Chars == {"1", "2", "7", "+", "-", " "}
Cores == UNION {[1..n -> Chars] : n \in 0..MaxChars}
Suffixes ==
    {<<>>, <<" ", "y", "e", "a", "r", "s">>, <<"y", "e", "a", "r">>,
     <<" ", "Y", "e", "a", "r", "s">>}
Examples ==
    {<<"5", "-", "7">>, <<"7", "-", "1", "1">>, <<"5">>,
     <<"5", " ", "y", "e", "a", "r", "s">>,
     <<"1", "2", "+", " ", "y", "e", "a", "r", "s">>,
     <<"g", "a", "r", "b", "a", "g", "e">>}
Descriptors == {c \o suffix : c \in Cores, suffix \in Suffixes} \cup Examples

SkillNames == {"python", "sql", "docker"}
SkillLists == UNION {[1..n -> SkillNames] : n \in 1..MaxSkills}

\* ---------------------------------- get_assessment_config_for_candidate
\* a column of the Assessment row that may be None; a JSON column may also
\* hold the empty dictionary
NoneColumn == [type |-> "NoneType", easy |-> 0, medium |-> 0, hard |-> 0]
EmptyDict == [type |-> "dict", easy |-> 0, medium |-> 0, hard |-> 0]
DistributionColumn(d) ==
    [type |-> "distribution", easy |-> d.easy, medium |-> d.medium, hard |-> d.hard]
ColumnValue(c) == [easy |-> c.easy, medium |-> c.medium, hard |-> c.hard]

\* the Assessment row and the Candidate (None, or a row whose
\* experience_years is a string, possibly empty)
Assessment(auto_adjust_by_experience, difficulty_distribution, passing_score_threshold) ==
    [auto_adjust_by_experience |-> auto_adjust_by_experience,
     difficulty_distribution |-> difficulty_distribution,
     passing_score_threshold |-> passing_score_threshold]
NoCandidate == [given |-> FALSE, experience_years |-> <<>>]
Candidate(experience_years) == [given |-> TRUE, experience_years |-> experience_years]

ConfigCall(total_questions, assessment, candidate) ==
    [fn |-> "config", total_questions |-> total_questions,
     difficulty_distribution |-> NoDistribution,
     experience_years |-> 0, experience_str |-> candidate.experience_years,
     num_skills |-> 1, skills |-> <<>>,
     assessment |-> assessment, candidate |-> candidate]

AdminDistributions ==
    {NoneColumn, EmptyDict,
     DistributionColumn([easy |-> 20, medium |-> 50, hard |-> 30]),
     DistributionColumn([easy |-> 50, medium |-> 50, hard |-> 0]),
     DistributionColumn([easy |-> 0, medium |-> 0, hard |-> 100])}
AdminThresholds == {Null, 0, 50, 70, 100}
Candidates ==
    {NoCandidate, Candidate(<<>>), Candidate(<<"2">>),
     Candidate(<<"5", "-", "7">>), Candidate(<<"8", " ", "y", "e", "a", "r", "s">>),
     Candidate(<<"1", "2", "+">>), Candidate(<<"g", "a", "r", "b", "a", "g", "e">>)}
ConfigCalls ==
    {ConfigCall(t, Assessment(a, d, p), c) :
        t \in {0, MaxTotal - 1, MaxTotal}, a \in BOOLEAN, d \in AdminDistributions,
        p \in AdminThresholds, c \in Candidates}

get_adjusted_difficulty_distribution(base_distribution, experience_years, auto_adjust) ==
    IF auto_adjust THEN get_difficulty_distribution(experience_years)
    ELSE base_distribution

\* "x or default": the default replaces None, an empty dictionary and 0
get_assessment_config_for_candidate(total_questions, assessment, candidate) ==
    LET adjust == candidate.given /\ assessment.auto_adjust_by_experience
        experience_years ==
           IF adjust /\ candidate.experience_years # <<>>
           THEN parse_experience_years(candidate.experience_years).value
           ELSE 5
        difficulty_distribution ==
           IF adjust THEN get_difficulty_distribution(experience_years)
           ELSE IF assessment.difficulty_distribution.type = "distribution"
           THEN ColumnValue(assessment.difficulty_distribution)
           ELSE [easy |-> 20, medium |-> 50, hard |-> 30]
        passing_score_threshold ==
           IF adjust THEN get_passing_score_threshold(experience_years)
           ELSE IF assessment.passing_score_threshold \notin {Null, 0}
           THEN assessment.passing_score_threshold
           ELSE 70
    IN  [total_questions |-> total_questions,
         difficulty_distribution |-> difficulty_distribution,
         passing_score_threshold |-> passing_score_threshold,
         question_counts_per_difficulty |->
            calculate_question_count_per_difficulty(total_questions, difficulty_distribution),
         experience_level |-> get_experience_level_label(experience_years),
         experience_years |-> experience_years,
         adjusted_by_experience |-> adjust,
         auto_adjust_enabled |-> assessment.auto_adjust_by_experience]

\* ------------------------------------------ serialize_question_for_test
\* question rows of every shape of the options column: the four labels with
\* and without a type tag, the tagged payloads of coding and architecture
\* questions, other tags, the empty dict, a list and None
QuestionRecords ==
    {QuestionRecord(1, o, "A") :
        o \in {OptionsJson("dict", {"A", "B", "C", "D"}, NoneStr),
               OptionsJson("dict", {"A", "B", "C", "D", "type"}, "mcq"),
               OptionsJson("dict", {"A", "B", "C", "D", "type"}, NoneStr),
               OptionsJson("dict", {"type", "rubric"}, "essay"),
               OptionsJson("dict", {"type", "language"}, "Coding"),
               OptionsJson("dict", {}, NoneStr),
               OptionsJson("list", {}, NoneStr),
               OptionsJson("NoneType", {}, NoneStr)}}
    \cup {QuestionRecord(2, o, "N/A") :
             o \in {OptionsJson("dict", {"type", "language", "constraints"}, "coding"),
                    OptionsJson("dict", {"type", "focus_areas"}, "architecture"),
                    OptionsJson("dict", {"type"}, "coding")}}

SerializeCall(question) ==
    [fn |-> "serialize", total_questions |-> 0,
     difficulty_distribution |-> NoDistribution,
     experience_years |-> 0, experience_str |-> <<>>,
     num_skills |-> 1, skills |-> <<>>, question |-> question]

Calls ==
    {SerializeCall(question) : question \in QuestionRecords}
    \cup
    {Call("difficulty", t, d, 0, <<>>, 1, <<>>) :
        t \in 0..MaxTotal, d \in Distributions}
    \cup {Call("band", 0, NoDistribution, y, <<>>, 1, <<>>) : y \in 0..MaxYears}
    \cup {Call("parse", 0, NoDistribution, 0, e, 1, <<>>) : e \in Descriptors}
    \cup {Call("per_skill", t, NoDistribution, 0, <<>>, n, <<>>) :
             t \in 0..MaxTotal, n \in 1..MaxSkills}
    \cup {Call("skills_config", t, NoDistribution, 0, <<>>, Len(l), l) :
             t \in 0..MaxTotal, l \in SkillLists}
    \cup ConfigCalls

Return(f, value) ==
    /\ ret[f] = {}
    /\ ret' = [ret EXCEPT ![f] = {value}]
    /\ UNCHANGED args
    /\ UNCHANGED besidesUtils

apply_get_difficulty_distribution ==
    /\ args.fn = "band"
    /\ Return("get_difficulty_distribution",
              get_difficulty_distribution(args.experience_years))

apply_get_passing_score_threshold ==
    /\ args.fn = "band"
    /\ Return("get_passing_score_threshold",
              get_passing_score_threshold(args.experience_years))

apply_get_experience_level_label ==
    /\ args.fn = "band"
    /\ Return("get_experience_level_label",
              get_experience_level_label(args.experience_years))

apply_calculate_question_count_per_difficulty ==
    /\ args.fn = "difficulty"
    /\ Return("calculate_question_count_per_difficulty",
              calculate_question_count_per_difficulty(
                 args.total_questions, args.difficulty_distribution))

apply_parse_experience_years ==
    /\ args.fn = "parse"
    /\ Return("parse_experience_years",
              parse_experience_years(args.experience_str))

apply_calculate_question_count_per_skill ==
    /\ args.fn = "per_skill"
    /\ Return("calculate_question_count_per_skill",
              calculate_question_count_per_skill(args.total_questions, args.num_skills))

apply_generate_questions_with_experience_config ==
    /\ args.fn = "skills_config"
    /\ Return("generate_questions_with_experience_config",
              skills_config_of(args.total_questions, args.skills))

apply_get_assessment_config_for_candidate ==
    /\ args.fn = "config"
    /\ Return("get_assessment_config_for_candidate",
              get_assessment_config_for_candidate(
                 args.total_questions, args.assessment, args.candidate))

apply_serialize_question_for_test ==
    /\ args.fn = "serialize"
    /\ Return("serialize_question_for_test",
              serialize_question_for_test(args.question))

\* called with the admin's distribution as base and the years the
\* descriptor parses to
apply_get_adjusted_difficulty_distribution ==
    /\ args.fn = "config"
    /\ args.assessment.difficulty_distribution.type = "distribution"
    /\ Return("get_adjusted_difficulty_distribution",
              get_adjusted_difficulty_distribution(
                 ColumnValue(args.assessment.difficulty_distribution),
                 parse_experience_years(args.experience_str).value,
                 args.assessment.auto_adjust_by_experience))


\* ======================================================================
\* Question generation (app/services/question_generator.py)
\* ======================================================================
\* generate_questions runs inside the worker task run_question_generation.
\* One step is one pass of one of its loops: retrieval, the LLM call, the
\* parse, the quality gate and the commit of the row.  What the retrieval and
\* the LLM answer is chosen freely from small sets.

\* the mapped attributes of class Question (app/db/models.py); the
\* constructor of a declarative class accepts these keywords and raises
\* TypeError on any other
QuestionAttributes ==
    {"id", "question_set_id", "jd_id", "question_text", "options",
     "correct_answer", "difficulty", "topic", "generation_model",
     "generation_time", "question_set", "job_description", "answers",
     "created_at", "updated_at"}

\* what the LLM's answer parses to: a value with its Python type
StrValue(chars) == [type |-> "str", chars |-> chars, keys |-> {}]
DictValue(keys) == [type |-> "dict", chars |-> <<>>, keys |-> keys]
OtherValue(type) == [type |-> type, chars |-> <<>>, keys |-> {}]
NoneValue == OtherValue("NoneType")

\* bool(value)
Truthy(v) ==
    CASE v.type = "str" -> v.chars # <<>>
      [] v.type = "dict" -> v.keys # {}
      [] v.type = "NoneType" -> FALSE
      [] OTHER -> TRUE

\* what _parse_llm_output returned: the value (of Python type type), and for
\* a dict what .get finds under the three keys
Item(question_text, options, correct_answer) ==
    [parsed |-> TRUE, type |-> "dict", question_text |-> question_text,
     options |-> options, correct_answer |-> correct_answer]
\* _parse_llm_output returned None
NoItem == [parsed |-> FALSE, type |-> "NoneType", question_text |-> NoneValue,
           options |-> NoneValue, correct_answer |-> NoneValue]
\* _parse_llm_output returned a value that is not a dict
NotADict(type) == [NoItem EXCEPT !.parsed = TRUE, !.type = type]

expected_keys == {"A", "B", "C", "D"}

_basic_qc_text_only(item) ==
    LET q == item.question_text
    IN  ~(~Truthy(q) \/ q.type # "str" \/ strip(q.chars) = <<>>)

_basic_qc(item) ==
    LET q == item.question_text
        opts == IF Truthy(item.options) THEN item.options ELSE DictValue({})
        corr == item.correct_answer
    IN  IF ~Truthy(q) \/ q.type # "str" \/ strip(q.chars) = <<>> THEN FALSE
        ELSE IF opts.type # "dict" \/ opts.keys # expected_keys THEN FALSE
        ELSE IF ~(corr.type = "str" /\ Len(corr.chars) = 1
                  /\ corr.chars[1] \in expected_keys) THEN FALSE
        ELSE TRUE

\* the exception _basic_qc leaves with, if any: item.get on a value that is
\* not a dict, and corr not in expected_keys on a correct_answer that cannot
\* be hashed (a JSON list or object)
_basic_qc_raises(item) ==
    LET q == item.question_text
        opts == IF Truthy(item.options) THEN item.options ELSE DictValue({})
        corr == item.correct_answer
    IN  IF item.type # "dict" THEN "AttributeError"
        ELSE IF ~Truthy(q) \/ q.type # "str" \/ strip(q.chars) = <<>> THEN NoneStr
        ELSE IF opts.type # "dict" \/ opts.keys # expected_keys THEN NoneStr
        ELSE IF corr.type \in {"list", "dict"} THEN "TypeError"
        ELSE NoneStr

\* if not parsed or not _basic_qc(parsed): continue
Dropped(item) == ~item.parsed \/ ~_basic_qc(item)

QuestionText == <<"W", "h", "y", "?">>
GoodItem == Item(StrValue(QuestionText), DictValue(expected_keys), StrValue(<<"A">>))
\* the well-formed item, and items that are off in one field
ParsedItems ==
    {GoodItem}
    \cup {[GoodItem EXCEPT !.question_text = q] :
             q \in {StrValue(<<>>), StrValue(<<" ", " ">>), OtherValue("int"),
                    NoneValue}}
    \cup {[GoodItem EXCEPT !.options = o] :
             o \in {DictValue({"A", "B"}), DictValue({"A", "B", "C", "D", "E"}),
                    DictValue({}), OtherValue("list"), NoneValue}}
    \cup {[GoodItem EXCEPT !.correct_answer = c] :
             c \in {StrValue(<<"E">>), StrValue(<<"A", "B">>), NoneValue,
                    OtherValue("list")}}

\* the keys _parse_llm_output asks for
RequiredKeys == {"question_text", "options", "correct_answer"}

\* a JSON value as json.loads returns it.  Of an object: its keys among the
\* required ones (has) and what is under them (item); of a list: which of the
\* required key names are among its elements; of a string: which of them
\* occur inside it
JsonObject(has, item) == [type |-> "dict", has |-> has, item |-> item]
JsonList(has) == [type |-> "list", has |-> has, item |-> NoItem]
JsonString(has) == [type |-> "str", has |-> has, item |-> NoItem]
JsonScalar(type) == [type |-> type, has |-> {}, item |-> NoItem]

\* the text the LLM answered: JSON as a whole (loads), or else text with or
\* without a "{" in it, whose tail from the first "{" is JSON (tail_loads)
\* or not
JsonText(value) ==
    [loads |-> TRUE, value |-> value, brace |-> FALSE, tail_loads |-> FALSE]
Prose(brace, tail_loads, tail) ==
    [loads |-> FALSE, value |-> tail, brace |-> brace, tail_loads |-> tail_loads]

\* all(k in obj for k in (...)): key lookup in a dict, membership in a list,
\* substring test in a str; TypeError on a value that is not iterable
AllKeysIn(obj) == RequiredKeys \subseteq obj.has
NotIterable(obj) == obj.type \notin {"dict", "list", "str"}

\* return obj
Parsed(obj) == IF obj.type = "dict" THEN obj.item ELSE NotADict(obj.type)

\* a first try on the whole text; when json.loads or the key test raises, a
\* second try on the text from its first "{" (a scalar has none)
_parse_llm_output(output) ==
    IF output.loads /\ ~NotIterable(output.value)
    THEN (IF AllKeysIn(output.value) THEN Parsed(output.value) ELSE NoItem)
    ELSE IF output.loads \/ ~output.brace \/ ~output.tail_loads THEN NoItem
    ELSE IF AllKeysIn(output.value) THEN Parsed(output.value) ELSE NoItem

\* what the LLM may answer: each of the objects above, an object that lacks
\* a key, values that are not objects, and text that is not JSON
LlmOutputs ==
    {JsonText(JsonObject(RequiredKeys, item)) : item \in ParsedItems}
    \cup {JsonText(JsonObject({"question_text", "options"}, GoodItem)),
          JsonText(JsonString({})), JsonText(JsonString(RequiredKeys)),
          JsonText(JsonList({})), JsonText(JsonList(RequiredKeys)),
          JsonText(JsonScalar("int")), JsonText(JsonScalar("NoneType")),
          Prose(FALSE, FALSE, JsonScalar("NoneType")),
          Prose(TRUE, FALSE, JsonScalar("NoneType")),
          Prose(TRUE, TRUE, JsonObject(RequiredKeys, GoodItem)),
          Prose(TRUE, TRUE, JsonObject({"options"}, GoodItem))}
\* _call_llm answers, or raises on an HTTP error (raise_for_status)
LlmOutcomes ==
    {[raised |-> FALSE, output |-> o] : o \in LlmOutputs}
    \cup {[raised |-> TRUE, output |-> Prose(FALSE, FALSE, JsonScalar("NoneType"))]}

\* a hit of query_text: (hit dict, score), the score a float (in hundredths)
\* or None
Hit(id, doc_id, score) == [id |-> id, doc_id |-> doc_id, score |-> score]
InScope == Hit("a1::chunk:0", "a1", 80)
Unscored == Hit("a1::chunk:1", "a1", Null)
Elsewhere == Hit("d2::chunk:0", "d2", 30)
\* what query_text may return (an exception counts as no hit)
Retrievals ==
    {<<>>, <<InScope>>, <<Unscored>>, <<Elsewhere>>, <<Elsewhere, InScope>>,
     <<Unscored, Elsewhere>>}

\* snippets = [s for s in snippets if doc_id == assessment_id]
ScopeFilter(snippets, assessment_id) ==
    IF assessment_id # NoneStr /\ snippets # <<>>
    THEN SelectSeq(snippets, LAMBDA s : s.doc_id = assessment_id)
    ELSE snippets

\* max of the numeric scores, None without one
TopScore(snippets) ==
    LET scores == {snippets[i].score : i \in 1..Len(snippets)} \ {Null}
    IN  IF snippets # <<>> /\ scores # {}
        THEN CHOOSE m \in scores : \A x \in scores : x <= m
        ELSE Null

\* if min_retrieval and (top_score is None or top_score < min_retrieval)
Thresholded(snippets, top_score, min_retrieval) ==
    IF min_retrieval # 0 /\ (top_score = Null \/ top_score < min_retrieval)
    THEN <<>>
    ELSE snippets

NoMeta == [fallback |-> FALSE, snippets |-> <<>>, top_score |-> Null,
           assessment_id |-> NoneStr]

\* the row a committed Question leaves in the table
QuestionRow(item, jd_id, source_type, source_meta) ==
    [question_text |-> item.question_text,
     options |-> IF Truthy(item.options) THEN item.options ELSE DictValue({}),
     correct_answer |-> item.correct_answer, jd_id |-> jd_id,
     source_type |-> source_type, source_meta |-> source_meta]

Generation(pc, mode, count, rag_pct, min_retrieval, assessment_id) ==
    [pc |-> pc, mode |-> mode, count |-> count, rag_pct |-> rag_pct,
     min_retrieval |-> min_retrieval, assessment_id |-> assessment_id,
     n_rag |-> 0, n_llm |-> 0, rag_passes |-> 0, llm_passes |-> 0,
     hits_count |-> 0, snippets |-> <<>>, top_score |-> Null, parsed |-> NoItem,
     source_type |-> NoneStr, source_meta |-> NoMeta, exc |-> NoneStr,
     raised_in |-> NoneStr]
NoGeneration == Generation("none", "rag", 0, 100, 0, NoneStr)

RagPcts == {0, 30, 50, 70, 100}
\* rag_pct is an int of the request body that nothing range-checks
UncheckedRagPcts == {-50, 150}
MinRetrievals == {0, 50}
Generations ==
    {Generation("called", "llm", c, 100, 0, a) :
        c \in 0..MaxCount, a \in {NoneStr, "a1"}}
    \cup {Generation("called", "rag", c, 100, m, a) :
             c \in 0..MaxCount, m \in MinRetrievals, a \in {NoneStr, "a1"}}
    \cup {Generation("called", "mix", c, p, m, a) :
             c \in 0..MaxCount, p \in RagPcts, m \in MinRetrievals,
             a \in {NoneStr, "a1"}}
    \cup {Generation("called", "mix", c, p, 0, NoneStr) :
             c \in 0..MaxCount, p \in UncheckedRagPcts}

\* an exception leaves generate_questions; the rows committed so far stay
Raise(exc, where) ==
    /\ gen' = [gen EXCEPT !.pc = "raised", !.exc = exc, !.raised_in = where]
    /\ UNCHANGED questions

\* Question(**kwargs); session.add; session.commit.  jd_id is a foreign key
\* into job_descriptions: the commit fails when no such row exists.
Persist(g, kwargs, row) ==
    IF ~(kwargs \subseteq QuestionAttributes)
    THEN gen' = [g EXCEPT !.pc = "raised", !.exc = "TypeError", !.raised_in = "Question"]
         /\ UNCHANGED questions
    ELSE \/ gen' = g /\ questions' = Append(questions, row)
         \/ /\ row.jd_id # NoneStr
            /\ gen' = [g EXCEPT !.pc = "raised", !.exc = "IntegrityError",
                                !.raised_in = "commit"]
            /\ UNCHANGED questions

\* where the function stands once rag_passes and llm_passes are what they are
Position(g) ==
    IF g.mode = "llm"
    THEN (IF g.llm_passes < g.count THEN "llm_mode" ELSE "returned")
    ELSE IF g.rag_passes < g.n_rag THEN "rag_loop"
    ELSE IF g.llm_passes < g.n_llm THEN "llm_loop"
    ELSE "returned"
Advance(g) == [g EXCEPT !.pc = Position(g)]

\* lines 199-201 and 223-228: the mode test and the split of count
generate_questions_begin ==
    /\ gen.pc = "called"
    /\ gen' = IF gen.mode = "llm"
              THEN Advance(gen)
              ELSE Advance([gen EXCEPT
                      !.n_rag = IF gen.mode = "mix"
                                THEN (LET r == round(gen.count * gen.rag_pct, 100)
                                      IN  IF r > 0 THEN r ELSE 0)
                                ELSE gen.count,
                      !.n_llm = IF gen.mode = "mix"
                                THEN gen.count -
                                     (LET r == round(gen.count * gen.rag_pct, 100)
                                      IN  IF r > 0 THEN r ELSE 0)
                                ELSE 0])
    /\ UNCHANGED questions
    /\ UNCHANGED besidesGenerator

\* one pass of an LLM-only loop (lines 201-220 and 291-309)
LlmPass(pc, llm) ==
    /\ gen.pc = pc
    /\ IF llm.raised
       THEN Raise("HTTPStatusError", "_call_llm")
       ELSE LET output == _parse_llm_output(llm.output)
                g == Advance([gen EXCEPT !.llm_passes = @ + 1, !.parsed = output])
            IN  IF output.parsed /\ _basic_qc_raises(output) # NoneStr
                THEN Raise(_basic_qc_raises(output), "_basic_qc")
                ELSE IF Dropped(output)
                THEN gen' = g /\ UNCHANGED questions
                ELSE Persist(g, {"question_text", "options", "correct_answer", "jd_id"},
                             QuestionRow(output, gen.assessment_id, NoneStr, NoMeta))
    /\ UNCHANGED besidesGenerator

generate_questions_llm_mode_item(llm) ==
    /\ gen.mode = "llm"
    /\ LlmPass("llm_mode", llm)

generate_questions_llm_item(llm) ==
    /\ gen.mode = "mix"
    /\ LlmPass("llm_loop", llm)

\* one pass of the RAG loop (lines 231-288)
generate_questions_rag_item(retrieved, llm) ==
    /\ gen.pc = "rag_loop"
    /\ LET scoped == ScopeFilter(retrieved, gen.assessment_id)
           top_score == TopScore(scoped)
           snippets == Thresholded(scoped, top_score, gen.min_retrieval)
           source_type == IF snippets # <<>> THEN "rag" ELSE "llm"
           source_meta ==
              IF snippets # <<>>
              THEN [fallback |-> FALSE,
                    snippets |-> [i \in 1..Len(snippets) |-> snippets[i].id],
                    top_score |-> top_score, assessment_id |-> gen.assessment_id]
              ELSE [fallback |-> TRUE, snippets |-> <<>>, top_score |-> Null,
                    assessment_id |-> gen.assessment_id]
           output == _parse_llm_output(llm.output)
       IN  IF llm.raised
           THEN Raise("HTTPStatusError", "_call_llm")
           ELSE IF output.parsed /\ _basic_qc_raises(output) # NoneStr
           THEN Raise(_basic_qc_raises(output), "_basic_qc")
           ELSE LET g == Advance([gen EXCEPT !.rag_passes = @ + 1,
                                             !.hits_count = Len(scoped),
                                             !.snippets = snippets,
                                             !.top_score = top_score,
                                             !.parsed = output,
                                             !.source_type = source_type,
                                             !.source_meta = source_meta])
                IN  IF Dropped(output)
                    THEN gen' = g /\ UNCHANGED questions
                    ELSE Persist(g, {"question_text", "options", "correct_answer",
                                     "jd_id", "source_type", "source_meta"},
                                 QuestionRow(output, gen.assessment_id,
                                             source_type, source_meta))
    /\ UNCHANGED besidesGenerator


\* ======================================================================
\* The in-memory test sessions of app/api/test_session.py
\* ======================================================================
\* uuid4 values handed out by upload_jd and by start_test
JdIds == {"j1"}
StoreSessionIds == {"m1", "m2"}
\* a JD id and a session id that were never handed out
UnknownJd == "j0"
UnknownStoreSession == "m0"

\* memory_store[jd_id]["questions"]: what generate_mcqs made of the JD
JdQuestions ==
    <<[question_id |-> 1, question_text |-> "text1",
       options |-> {"A", "B", "C", "D"}, correct_answer |-> "A"],
      [question_id |-> 2, question_text |-> "text2",
       options |-> {"A", "B", "C", "D"}, correct_answer |-> "B"]>>

\* str(question_id), the key of the answers dict
str(n) == ToString(n)

NoStoreSession ==
    [exists |-> FALSE, jd_id |-> NoneStr, started_at |-> Null,
     answers |-> <<>>, is_completed |-> FALSE]

NoOut == [op |-> "none", status |-> 0]

HTTPException(op, code, detail) == [op |-> op, status |-> code, detail |-> detail]

\* POST /upload-jd/: the JD is stored with its generated questions, unless
\* the text extraction (400) or the MCQ generation (500) failed
upload_jd(jd, failure) ==
    /\ jd \notin memory_store
    /\ IF failure # 0
       THEN /\ out' = HTTPException("upload_jd", failure, "failed")
            /\ UNCHANGED memory_store
       ELSE /\ memory_store' = memory_store \cup {jd}
            /\ out' = [op |-> "upload_jd", status |-> 200, jd_id |-> jd,
                       questions |-> JdQuestions]
    /\ UNCHANGED test_sessions
    /\ UNCHANGED besidesStore

\* POST /start-test/
start_test(jd_id, s) ==
    /\ ~test_sessions[s].exists
    /\ IF jd_id \notin memory_store
       THEN /\ out' = HTTPException("start_test", 404, "JD not found. Please upload a JD first.")
            /\ UNCHANGED test_sessions
       ELSE /\ test_sessions' = [test_sessions EXCEPT ![s] =
                  [exists |-> TRUE, jd_id |-> jd_id, started_at |-> now,
                   answers |-> <<>>, is_completed |-> FALSE]]
            /\ out' = [op |-> "start_test", status |-> 200, session_id |-> s,
                       jd_id |-> jd_id, total_questions |-> Len(JdQuestions),
                       questions |->
                          [i \in DOMAIN JdQuestions |->
                             [question_id |-> JdQuestions[i].question_id,
                              question_text |-> JdQuestions[i].question_text,
                              options |-> JdQuestions[i].options]]]
    /\ UNCHANGED memory_store
    /\ UNCHANGED besidesStore

\* session["answers"][key] = value
SetItem(dict, key, value) ==
    [k \in DOMAIN dict \cup {key} |-> IF k = key THEN value ELSE dict[k]]

\* POST /submit-answer/
submit_answer(session_id, question_id, selected_answer) ==
    /\ IF session_id \notin StoreSessionIds \/ ~test_sessions[session_id].exists
       THEN /\ out' = HTTPException("submit_answer", 404, "Test session not found.")
            /\ UNCHANGED test_sessions
       ELSE LET session == test_sessions[session_id]
            IN IF session.is_completed
               THEN /\ out' = HTTPException("submit_answer", 400, "Test is already completed.")
                    /\ UNCHANGED test_sessions
               ELSE IF ~\E i \in DOMAIN JdQuestions : JdQuestions[i].question_id = question_id
               THEN /\ out' = HTTPException("submit_answer", 404, "Question not found.")
                    /\ UNCHANGED test_sessions
               ELSE IF selected_answer \notin {"A", "B", "C", "D"}
               THEN /\ out' = HTTPException("submit_answer", 400, "Answer must be A, B, C, or D.")
                    /\ UNCHANGED test_sessions
               ELSE /\ test_sessions' = [test_sessions EXCEPT ![session_id].answers =
                          SetItem(@, str(question_id), selected_answer)]
                    /\ out' = [op |-> "submit_answer", status |-> 200,
                               question_id |-> question_id,
                               selected_answer |-> selected_answer,
                               total_answered |->
                                  Cardinality(DOMAIN test_sessions'[session_id].answers)]
    /\ UNCHANGED memory_store
    /\ UNCHANGED besidesStore

\* session["answers"].get(str(q_id), "")
AnswerGiven(session, q_id) ==
    IF str(q_id) \in DOMAIN session.answers THEN session.answers[str(q_id)] ELSE ""

\* POST /complete-test/: the session is marked completed and the result is
\* returned at once; score_percentage is in hundredths of a percent
complete_test(session_id) ==
    /\ IF session_id \notin StoreSessionIds \/ ~test_sessions[session_id].exists
       THEN /\ out' = HTTPException("complete_test", 404, "Test session not found.")
            /\ UNCHANGED test_sessions
       ELSE LET session == test_sessions[session_id]
                detailed_results ==
                   [i \in DOMAIN JdQuestions |->
                      LET selected_answer == AnswerGiven(session, JdQuestions[i].question_id)
                      IN [question_id |-> JdQuestions[i].question_id,
                          selected_answer |-> IF selected_answer # ""
                                              THEN selected_answer ELSE "Not Answered",
                          correct_answer |-> JdQuestions[i].correct_answer,
                          is_correct |-> selected_answer = JdQuestions[i].correct_answer]]
                correct_count ==
                   Cardinality({i \in DOMAIN JdQuestions : detailed_results[i].is_correct})
                total_questions == Len(JdQuestions)
            IN IF session.is_completed
               THEN /\ out' = HTTPException("complete_test", 400, "Test is already completed.")
                    /\ UNCHANGED test_sessions
               ELSE /\ test_sessions' = [test_sessions EXCEPT ![session_id].is_completed = TRUE]
                    /\ out' = [op |-> "complete_test", status |-> 200,
                               session_id |-> session_id, jd_id |-> session.jd_id,
                               total_questions |-> total_questions,
                               correct_answers |-> correct_count,
                               score_percentage |->
                                  IF total_questions > 0
                                  THEN round(correct_count * 10000, total_questions)
                                  ELSE 0,
                               detailed_results |-> detailed_results,
                               completed_at |-> now]
    /\ UNCHANGED memory_store
    /\ UNCHANGED besidesStore

\* GET /test-status/{session_id}
get_test_status(session_id) ==
    /\ IF session_id \notin StoreSessionIds \/ ~test_sessions[session_id].exists
       THEN out' = HTTPException("get_test_status", 404, "Test session not found.")
       ELSE LET session == test_sessions[session_id]
            IN out' = [op |-> "get_test_status", status |-> 200,
                       session_id |-> session_id, jd_id |-> session.jd_id,
                       is_completed |-> session.is_completed,
                       total_questions |-> Len(JdQuestions),
                       answered_questions |-> Cardinality(DOMAIN session.answers),
                       started_at |-> session.started_at]
    /\ UNCHANGED <<memory_store, test_sessions>>
    /\ UNCHANGED besidesStore

\* ======================================================================
\* Specifications
\* ======================================================================
Init ==
    /\ now = 0
    /\ sessions = [s \in SessionIds |-> NoSession]
    /\ answers = EmptyBag
    /\ req = [p \in Procs |-> Idle]
    /\ resp = NoResp
    /\ scheduled = [s \in SessionIds |-> <<>>]
    /\ celery_tasks = [t \in TaskIds |-> NoTask]
    /\ broker = [t \in TaskIds |-> NoMessage]
    /\ worker = [t \in TaskIds |-> WorkerIdle]
    /\ api = [t \in TaskIds |-> NotSubmitted]
    /\ args = NoCall
    /\ ret = NotCalled
    /\ gen = NoGeneration
    /\ questions = <<>>
    /\ memory_store = {}
    /\ test_sessions = [s \in StoreSessionIds |-> NoStoreSession]
    /\ out = NoOut

\* The clock runs to MaxTime, and on until the last scheduled release is due
Tick ==
    /\ Ready
    /\ UNCHANGED besidesSessions
    /\ \/ now < MaxTime
       \/ \E s \in SessionIds, i \in 1..MaxScheduled :
             i <= Len(scheduled[s]) /\ scheduled[s][i] > now
    /\ now' = now + 1
    /\ UNCHANGED <<sessions, answers, req, resp, scheduled>>

\* the candidate who owns the session, and another authenticated user
Owner == "u1"
Stranger == "u2"

\* a new request is taken by the first handler that is free
FreeProc(p) == req[p] = Idle /\ (p = "p2" => req["p1"] # Idle)

Next ==
    \/ Tick
    \/ deliver_response
    \/ \E jd \in {"jd1", "jd0"}, n \in 0..2 : start_test_session(Owner, jd, n)
    \/ start_questionset_test("start_questionset_test", Owner, "qs1")
    \/ \E u \in {Owner, NoneStr} :
          start_questionset_test("start_questionset_test_anonymous", u, "qs1")
    \/ \E p \in Procs, s \in SessionIds,
          q \in QuestionIds \cup {UnknownQuestionId}, v \in AnswerValues :
          FreeProc(p) /\ submit_answer_read(p, Owner, s, q, v)
    \/ \E p \in Procs, s \in SessionIds :
          FreeProc(p) /\ submit_answer_read(p, Stranger, s, 1, "A")
    \/ \E p \in Procs : submit_answer_commit(p)
    \/ \E p \in Procs, u \in {Owner, Stranger}, s \in SessionIds :
          FreeProc(p) /\ complete_test_session_read(p, u, s)
    \/ \E p \in Procs : complete_test_session_commit(p)
    \/ \E s \in SessionIds, i \in 1..MaxScheduled : score_release_fire(s, i)
    \/ \E u \in {Owner, Stranger}, s \in SessionIds : get_test_results(u, s)
    \/ \E u \in {Owner, Stranger, NoneStr}, s \in SessionIds :
          get_questionset_test_results(u, s)
    \/ \E s \in SessionIds, time_remaining \in {0, 1} :
          get_session_status(Owner, s, time_remaining)
    \/ \E u \in {Owner, Stranger} : list_my_test_sessions(u)
    \/ \E u \in {Owner, Stranger} : get_my_assessments(u)
    \/ \E u \in {Owner, Stranger}, s \in SessionIds : submit_questionset_answers(u, s)
    \/ \E u \in {Owner, Stranger, NoneStr}, s \in SessionIds :
          submit_questionset_answers_anonymous(u, s)

Spec == Init /\ [][Next]_vars

\* the job tracker: submissions of the two endpoints and the workers
JobNext ==
    \/ \E t \in TaskIds : upload_question_doc_enqueue(t)
    \/ \E t \in TaskIds : upload_question_doc_record(t)
    \/ \E t \in TaskIds : start_question_generation_send(t)
    \/ \E t \in TaskIds : start_question_generation_record(t)
    \/ \E t \in TaskIds : index_question_document_task_begin(t)
    \/ \E t \in TaskIds, raised \in BOOLEAN : index_question_document_task_end(t, raised)
    \/ \E t \in TaskIds : run_question_generation_begin(t)
    \/ \E t \in TaskIds, raised \in BOOLEAN : run_question_generation_end(t, raised)
    \/ \E t \in TaskIds : get_generation_status(t)

JobSpec == Init /\ [][JobNext]_vars

\* the job tracker with its scheduling: a handler that has put its message on
\* the queue goes on to its INSERT, the queue delivers every message once,
\* and a task body that has started reaches its end
LiveJobSpec ==
    /\ JobSpec
    /\ \A t \in TaskIds :
          /\ WF_vars(upload_question_doc_record(t))
          /\ WF_vars(start_question_generation_record(t))
          /\ WF_vars(broker[t].deliveries = 0 /\ index_question_document_task_begin(t))
          /\ WF_vars(broker[t].deliveries = 0 /\ run_question_generation_begin(t))
          /\ WF_vars(\E raised \in BOOLEAN : index_question_document_task_end(t, raised))
          /\ WF_vars(\E raised \in BOOLEAN : run_question_generation_end(t, raised))

\* the pure functions (the experience utilities and the question serializer):
\* one call, drawn at the start, then applied
UtilInit ==
    /\ now = 0
    /\ sessions = [s \in SessionIds |-> NoSession]
    /\ answers = EmptyBag
    /\ req = [p \in Procs |-> Idle]
    /\ resp = NoResp
    /\ scheduled = [s \in SessionIds |-> <<>>]
    /\ celery_tasks = [t \in TaskIds |-> NoTask]
    /\ broker = [t \in TaskIds |-> NoMessage]
    /\ worker = [t \in TaskIds |-> WorkerIdle]
    /\ api = [t \in TaskIds |-> NotSubmitted]
    /\ args \in Calls
    /\ ret = NotCalled
    /\ gen = NoGeneration
    /\ questions = <<>>
    /\ memory_store = {}
    /\ test_sessions = [s \in StoreSessionIds |-> NoStoreSession]
    /\ out = NoOut

UtilNext ==
    \/ apply_get_difficulty_distribution
    \/ apply_get_passing_score_threshold
    \/ apply_get_experience_level_label
    \/ apply_calculate_question_count_per_difficulty
    \/ apply_parse_experience_years
    \/ apply_calculate_question_count_per_skill
    \/ apply_generate_questions_with_experience_config
    \/ apply_get_assessment_config_for_candidate
    \/ apply_get_adjusted_difficulty_distribution
    \/ apply_serialize_question_for_test

UtilSpec == UtilInit /\ [][UtilNext]_vars

\* one call of generate_questions, its arguments drawn at the start
GenInit ==
    /\ now = 0
    /\ sessions = [s \in SessionIds |-> NoSession]
    /\ answers = EmptyBag
    /\ req = [p \in Procs |-> Idle]
    /\ resp = NoResp
    /\ scheduled = [s \in SessionIds |-> <<>>]
    /\ celery_tasks = [t \in TaskIds |-> NoTask]
    /\ broker = [t \in TaskIds |-> NoMessage]
    /\ worker = [t \in TaskIds |-> WorkerIdle]
    /\ api = [t \in TaskIds |-> NotSubmitted]
    /\ args = NoCall
    /\ ret = NotCalled
    /\ gen \in Generations
    /\ questions = <<>>
    /\ memory_store = {}
    /\ test_sessions = [s \in StoreSessionIds |-> NoStoreSession]
    /\ out = NoOut

GenNext ==
    \/ generate_questions_begin
    \/ \E llm \in LlmOutcomes : generate_questions_llm_mode_item(llm)
    \/ \E retrieved \in Retrievals, llm \in LlmOutcomes :
          generate_questions_rag_item(retrieved, llm)
    \/ \E llm \in LlmOutcomes : generate_questions_llm_item(llm)

GenSpec == GenInit /\ [][GenNext]_vars

\* the in-memory store: uploads, starts, answers, completions and status reads
StoreNext ==
    \/ \E jd \in JdIds, failure \in {0, 400, 500} : upload_jd(jd, failure)
    \/ \E jd_id \in JdIds \cup {UnknownJd}, s \in StoreSessionIds : start_test(jd_id, s)
    \/ \E s \in StoreSessionIds \cup {UnknownStoreSession}, q \in 1..3, v \in {"A", "B", "E"} :
          submit_answer(s, q, v)
    \/ \E s \in StoreSessionIds \cup {UnknownStoreSession} : complete_test(s)
    \/ \E s \in StoreSessionIds \cup {UnknownStoreSession} : get_test_status(s)

StoreSpec == Init /\ [][StoreNext]_vars

\* A response is always delivered.  The clock and the scheduler's worker run
\* on their own, whatever the request handlers are doing: they are never
\* starved by a stream of requests, so each gets strong fairness.
LiveSpec ==
    /\ Init /\ [][Next]_vars
    /\ WF_vars(deliver_response)
    /\ SF_vars(Tick)
    /\ \A s \in SessionIds : SF_vars(\E i \in 1..MaxScheduled : score_release_fire(s, i))

\* ======================================================================
\* Properties of the test-session engine
\* ======================================================================
Rejected(r) == r.status \in {400, 403, 404, 500}

AllQuestionIds == QuestionIds \cup {UnknownQuestionId}

\* a step in which the free handler p takes a request: it answers at once or
\* goes on to its commit
TakesRequest(p) ==
    /\ req[p] = Idle
    /\ resp = NoResp
    /\ (resp' # NoResp \/ req'[p] # Idle)

\* C1: there is at most one Answer row per (session_id, question_id); a
\* submit_answer for a pair that already has a row is rejected (by the
\* "already answered" check, or at the latest by the INSERT) and leaves the
\* table as it is.
C1_OneAnswerPerPair ==
    [][/\ \A s \in SessionIds, q \in AllQuestionIds : (CountAnswersFor(s, q))' <= 1
       /\ \A p \in Procs :
             TakesRequest(p) =>
                \A s \in SessionIds, q \in AllQuestionIds, v \in AnswerValues :
                   (AnswersFor(s, q) # {} /\ submit_answer_read(p, Owner, s, q, v))
                      => (Rejected(resp') /\ req'[p] = Idle /\ answers' = answers)
       /\ \A p \in Procs :
             (/\ req[p].op = "submit_answer"
              /\ AnswersFor(req[p].row.session_id, req[p].row.question_id) # {}
              /\ submit_answer_commit(p))
                => (Rejected(resp') /\ answers' = answers)]_vars

\* a second submission for an answered pair was just turned down
C1_Witness ==
    /\ resp = Reject("submit_answer", 400, "Question already answered")
    /\ \E s \in SessionIds, q \in QuestionIds : CountAnswersFor(s, q) = 1

\* both handlers have passed the "already answered" read for the same pair
SamePairInFlight ==
    /\ req["p1"].op = "submit_answer"
    /\ req["p2"].op = "submit_answer"
    /\ req["p1"].row.session_id = req["p2"].row.session_id
    /\ req["p1"].row.question_id = req["p2"].row.question_id

\* C2: of two concurrent submit_answer requests for the same pair that both
\* passed the "already answered" read, the first INSERT stores one row and
\* the second is rejected at the uniqueness constraint; no stored row is
\* ever replaced or removed, and there are never two rows for a pair.
C2_ConcurrentDuplicateSubmit ==
    [][/\ \A p \in Procs, s \in SessionIds, q \in QuestionIds :
             (/\ SamePairInFlight
              /\ req[p].row.session_id = s
              /\ req[p].row.question_id = q
              /\ AnswersFor(s, q) = {}
              /\ submit_answer_commit(p))
                => (/\ answers' = answers (+) SetToBag({req[p].row})
                    /\ resp'.status = 200
                    /\ (CountAnswersFor(s, q))' = 1)
       /\ \A p \in Procs :
             (/\ req[p].op = "submit_answer"
              /\ AnswersFor(req[p].row.session_id, req[p].row.question_id) # {}
              /\ submit_answer_commit(p))
                => (resp' = Reject("submit_answer", 500, "IntegrityError")
                    /\ answers' = answers)
       /\ \A a \in BagToSet(answers) : CopiesIn(a, answers') = CopiesIn(a, answers)
       /\ \A s \in SessionIds, q \in QuestionIds : (CountAnswersFor(s, q))' <= 1]_vars

\* the loser of the race: it passed the read, and its INSERT was refused
C2_Witness ==
    /\ resp = Reject("submit_answer", 500, "IntegrityError")
    /\ \E s \in SessionIds, q \in QuestionIds : CountAnswersFor(s, q) = 1

\* C3: is_completed never goes back to false, and a complete call (the
\* complete endpoint or a batch submission) made on a completed session is
\* rejected and leaves the session row as the first completion wrote it.
C3_CompletionIsTerminal ==
    [][\A s \in SessionIds :
         /\ sessions[s].is_completed => sessions'[s].is_completed
         /\ sessions[s].is_completed =>
              /\ \A p \in Procs, u \in {Owner, Stranger} :
                    complete_test_session_read(p, u, s)
                       => (Rejected(resp') /\ req'[p] = Idle /\ sessions' = sessions)
              /\ \A u \in {Owner, Stranger} :
                    submit_questionset_answers(u, s)
                       => (Rejected(resp') /\ sessions' = sessions)
              /\ \A u \in {Owner, Stranger, NoneStr} :
                    submit_questionset_answers_anonymous(u, s)
                       => (Rejected(resp') /\ sessions' = sessions)]_vars

\* a second complete call was just turned down, at a later time than the
\* first completion
C3_Witness ==
    /\ resp = Reject("complete_test_session", 400, "Session already completed")
    /\ \E s \in SessionIds : sessions[s].is_completed /\ sessions[s].completed_at < now

\* C4: an answer submitted (alone or in a batch) against a session that is
\* completed is rejected, and the answers table is left as it is.
C4_NoAnswerAfterCompletion ==
    [][\A s \in SessionIds :
         sessions[s].is_completed =>
           /\ \A p \in Procs :
                 TakesRequest(p) =>
                    \A u \in {Owner, Stranger}, q \in AllQuestionIds, v \in AnswerValues :
                       submit_answer_read(p, u, s, q, v)
                          => (Rejected(resp') /\ req'[p] = Idle /\ answers' = answers)
           /\ \A u \in {Owner, Stranger} :
                 submit_questionset_answers(u, s)
                    => (Rejected(resp') /\ answers' = answers)
           /\ \A u \in {Owner, Stranger, NoneStr} :
                 submit_questionset_answers_anonymous(u, s)
                    => (Rejected(resp') /\ answers' = answers)]_vars

\* an answer for a completed session was just turned down
C4_Witness ==
    /\ resp = Reject("submit_answer", 400, "Session already completed")
    /\ \E s \in SessionIds : sessions[s].is_completed

\* the results response on its way is the owner's, for a session that is
\* completed and not released
PendingResultsRequest ==
    /\ resp.op = "get_test_results"
    /\ sessions[resp.session_id].exists
    /\ resp.caller = sessions[resp.session_id].user_id
    /\ sessions[resp.session_id].is_completed
    /\ ~sessions[resp.session_id].is_scored

\* C7: a results request for a completed, unreleased session is answered
\* with the pending indicator, which carries completed_at and
\* estimated_release_at = completed_at + release delay and none of
\* score_percentage, correct_answers and the per-question results.
C7_PendingHidesScore ==
    PendingResultsRequest =>
        /\ resp.status = 403
        /\ resp.detail = "pending"
        /\ resp.body.completed_at = sessions[resp.session_id].completed_at
        /\ resp.body.estimated_release_at =
              sessions[resp.session_id].completed_at + SCORE_RELEASE_DELAY_HOURS
        /\ DOMAIN resp.body \cap
              {"score_percentage", "correct_answers", "detailed_results", "is_correct"} = {}

C7_Witness ==
    /\ PendingResultsRequest
    /\ sessions[resp.session_id].correct_answers > 0

\* the results response on its way is the owner's, for a released session
ReleasedResultsRequest ==
    /\ resp.op = "get_test_results"
    /\ sessions[resp.session_id].exists
    /\ resp.caller = sessions[resp.session_id].user_id
    /\ sessions[resp.session_id].is_scored

\* C8: a session completed under the delayed policy is eventually released
\* (is_scored with score_released_at set), it stays released, and every
\* results request of its owner from then on gets the full results.
C8_EventuallyReleased ==
    /\ \A s \in SessionIds :
          (sessions[s].is_completed /\ ~sessions[s].is_scored)
             ~> (sessions[s].is_scored /\ sessions[s].score_released_at # Null)
    /\ [][\A s \in SessionIds : sessions[s].is_scored => sessions'[s].is_scored]_vars
    /\ [](ReleasedResultsRequest =>
             /\ resp.status = 200
             /\ resp.body.score_percentage = sessions[resp.session_id].score_percentage
             /\ resp.body.detailed_results = DetailedResults(resp.session_id))

\* full results of a session that was completed by the complete endpoint and
\* released by the scheduler later
C8_Witness ==
    /\ ReleasedResultsRequest
    /\ resp.status = 200
    /\ sessions[resp.session_id].score_released_at > sessions[resp.session_id].completed_at

\* the rows of a session the claim counts as correct
TrulyCorrect(a) ==
    /\ resolve_question_type(a.question_id) = "mcq"
    /\ a.selected_answer # NOT_ANSWERED
    /\ a.selected_answer = Question(a.question_id).correct_answer

\* C9: the step that completes a session stores correct_answers = the number
\* of the session's Answer rows with is_correct, and score_percentage =
\* correct_answers / total_questions * 100, or 0 when total_questions = 0.
C9_ScoreMatchesAnswers ==
    [][\A s \in SessionIds :
         (sessions[s].exists /\ ~sessions[s].is_completed /\ sessions'[s].is_completed)
            => /\ sessions'[s].correct_answers = (CorrectCount(s))'
               /\ IF sessions'[s].total_questions = 0
                  THEN sessions'[s].score_percentage = Rat(0, 1)
                  ELSE RatEq(sessions'[s].score_percentage,
                             Rat((CorrectCount(s))' * 100, sessions'[s].total_questions))]_vars

\* C10: a stored Answer has is_correct only if its question is an mcq
\* question, its value is not the sentinel and equals the stored correct
\* label; so sentinel answers and coding/architecture answers are stored
\* with is_correct = false and are not counted in correct_answers.
C10_OnlyMcqMatchesAreCorrect ==
    /\ \A a \in BagToSet(answers) : a.is_correct => TrulyCorrect(a)
    /\ \A s \in SessionIds :
          sessions[s].correct_answers
             <= SumCopies(answers, {a \in AnswersOf(s) : TrulyCorrect(a)})

\* a completed session that holds a coding answer equal to the question's
\* stored correct_answer, and a sentinel answer
C10_Witness ==
    \E s \in SessionIds :
        /\ sessions[s].is_completed
        /\ \E a \in AnswersOf(s) :
              /\ resolve_question_type(a.question_id) = "coding"
              /\ a.selected_answer = Question(a.question_id).correct_answer
              /\ ~a.is_correct
        /\ \E a \in AnswersOf(s) : a.selected_answer = NOT_ANSWERED /\ ~a.is_correct

\* the value of a stored answer is one the question's type accepts
McqValueOk(q, v) == v = NOT_ANSWERED \/ v \in Question(q).options

\* C11: for an mcq question a value that is neither the sentinel nor one of
\* the option labels is rejected with a 400, and no Answer row is stored for
\* it: by the single-answer handler (whatever else it finds wrong first is
\* also a rejection), and by the batch handler, whose accepted batches store
\* only sentinel or label values for mcq questions.
C11_InvalidMcqAnswerRejected ==
    /\ [](\A a \in BagToSet(answers) :
             resolve_question_type(a.question_id) = "mcq"
                => McqValueOk(a.question_id, a.selected_answer))
    /\ [][\A p \in Procs :
            TakesRequest(p) =>
               \A s \in SessionIds, q \in QuestionIds, v \in AnswerValues :
                  (/\ resolve_question_type(q) = "mcq"
                   /\ ~McqValueOk(q, v)
                   /\ submit_answer_read(p, Owner, s, q, v))
                     => /\ Rejected(resp')
                        /\ req'[p] = Idle
                        /\ answers' = answers
                        /\ ((/\ OwnedSession(s, Owner).exists
                             /\ ~sessions[s].is_completed
                             /\ AnswersFor(s, q) = {})
                               => resp' = Reject("submit_answer", 400, "Invalid answer"))]_vars

\* an invalid mcq value was just turned down by the batch handler while the
\* single-answer handler had stored a valid one
C11_Witness ==
    /\ resp = Reject("submit_questionset_answers", 400, "Invalid answer")
    /\ \E s \in SessionIds :
          \E a \in AnswersOf(s) : resolve_question_type(a.question_id) = "mcq"

\* C12: a batch submission that is rejected changes nothing: no Answer row
\* is added and the session row stays as it was (not completed, score and
\* release columns untouched); rows are added by the batch handler only in
\* the step that also completes the session.
C12_RejectedBatchChangesNothing ==
    [][(resp = NoResp /\ resp'.op = "submit_questionset_answers")
          => /\ resp'.status # 200 => (answers' = answers /\ sessions' = sessions)
             /\ resp'.status = 200 =>
                   \A s \in SessionIds :
                      sessions'[s] # sessions[s]
                         => (~sessions[s].is_completed /\ sessions'[s].is_completed)]_vars

\* a batch that names the same question twice was refused at the INSERT:
\* nothing of it is stored and the session is still open
C12_Witness ==
    /\ resp = Reject("submit_questionset_answers", 500, "IntegrityError")
    /\ answers = EmptyBag
    /\ \E s \in SessionIds : sessions[s].exists /\ ~sessions[s].is_completed

\* the response on its way answers a read of the results of a session that
\* the caller may see and that is not completed
ResultsReadBeforeCompletion ==
    /\ resp.op \in {"get_test_results", "get_questionset_test_results"}
    /\ sessions[resp.session_id].exists
    /\ resp.caller = sessions[resp.session_id].user_id
    /\ ~sessions[resp.session_id].is_completed

C23_ReleaseIsIdempotent ==
    [][\A s \in SessionIds, i \in 1..MaxScheduled :
         (sessions[s].is_scored /\ score_release_fire(s, i)) =>
            /\ sessions'[s].is_scored
            /\ sessions'[s].score_released_at = sessions[s].score_released_at
            /\ sessions'[s].score_percentage = sessions[s].score_percentage
            /\ sessions'[s].correct_answers = sessions[s].correct_answers]_vars

\* a release task that became due after the session's release has fired: the
\* clock passed MaxTime only for it, and the scheduler is empty again
C23_Witness ==
    \E s \in SessionIds :
       /\ sessions[s].is_scored
       /\ sessions[s].score_released_at < now
       /\ now > MaxTime
       /\ scheduled[s] = <<>>

\* the batch submission that completes session s releases its score in the
\* same step, with the completion time as the release time
ImmediateRelease(s) ==
    (/\ ~sessions[s].is_completed
     /\ sessions'[s].is_completed
     /\ \E u \in {Owner, Stranger} : submit_questionset_answers(u, s))
       => /\ sessions'[s].is_scored
          /\ sessions'[s].completed_at # Null
          /\ sessions'[s].score_released_at = sessions'[s].completed_at

\* a release time that is set is the one of a completed session, and is not
\* earlier than the completion time
ReleaseNotBeforeCompletion ==
    \A s \in SessionIds :
       sessions[s].score_released_at # Null =>
          /\ sessions[s].is_completed
          /\ sessions[s].score_released_at >= sessions[s].completed_at

ImmediateReleaseInOneStep == [][\A s \in SessionIds : ImmediateRelease(s)]_vars

\* C25: under the immediate policy the completing submission sets is_scored
\* and score_released_at = completed_at in the step that sets is_completed;
\* every score_released_at that is set belongs to a completed session and is
\* not earlier than that session's completed_at.
C25_ImmediatePolicyRelease ==
    /\ ImmediateReleaseInOneStep
    /\ []ReleaseNotBeforeCompletion

\* ======================================================================
\* Properties of the generation-job tracker
\* ======================================================================
Terminal(row) == row.exists /\ row.status \in {"SUCCESS", "FAILURE"}

\* C5: a job record whose status is SUCCESS or FAILURE never changes its
\* status, result or error again, whatever runs afterwards (in particular the
\* worker body running a second time for the same task id).
C5_TerminalRecordIsFinal ==
    [][\A t \in TaskIds :
          Terminal(celery_tasks[t]) => celery_tasks'[t] = celery_tasks[t]]_vars

\* C6: a record never goes from STARTED back to PENDING, and a record never
\* enters SUCCESS or FAILURE from anything but STARTED (so it is never in a
\* terminal status without having been in STARTED before).
C6_StatusMovesForward ==
    [][\A t \in TaskIds :
          /\ (celery_tasks[t].exists /\ celery_tasks[t].status = "STARTED")
                => celery_tasks'[t].status # "PENDING"
          /\ (Terminal(celery_tasks'[t]) /\ ~Terminal(celery_tasks[t]))
                => (celery_tasks[t].exists /\ celery_tasks[t].status = "STARTED")]_vars

\* C26: there is one job record per task id, the PENDING record of the
\* submission is the one the worker moves to STARTED, and in either order of
\* the handler's INSERT and the worker's first step neither fails because the
\* other has created the record.
C26_OneRecordEitherOrder ==
    [][\A t \in TaskIds :
          /\ upload_question_doc_record(t) => api'[t].pc = "done"
          /\ start_question_generation_record(t) => api'[t].pc = "done"
          /\ (celery_tasks[t].exists /\ celery_tasks[t].status = "PENDING"
                /\ index_question_document_task_begin(t))
                => celery_tasks'[t] = [celery_tasks[t] EXCEPT !.status = "STARTED"]
          /\ (celery_tasks[t].exists /\ celery_tasks[t].status = "PENDING"
                /\ run_question_generation_begin(t))
                => /\ celery_tasks'[t] = [celery_tasks[t] EXCEPT !.status = "STARTED"]
                   /\ worker'[t] = [pc |-> "generate_questions"]]_vars

\* a worker has run the body of task t to its end, by return or by raise
WorkerFinished(t) ==
    /\ api[t].op # "none"
    /\ broker[t].deliveries > 0
    /\ worker[t] = WorkerIdle

\* C27: every submitted job is tracked to completion: once the worker has
\* finished, the status of the job's record is eventually SUCCESS or FAILURE;
\* it does not stay PENDING or STARTED (or missing) for ever.
C27_TrackedToCompletion ==
    \A t \in TaskIds : WorkerFinished(t) ~> Terminal(celery_tasks[t])

\* the worker's run of the body of task t ends by a raise in this step
WorkerRaises(t) ==
    \/ index_question_document_task_end(t, TRUE)
    \/ run_question_generation_end(t, TRUE)
    \/ run_question_generation_begin(t) /\ worker'[t] = WorkerIdle

\* the worker's run of the body of task t ends by a return in this step
WorkerReturns(t) ==
    \/ index_question_document_task_end(t, FALSE)
    \/ run_question_generation_end(t, FALSE)

\* C28: when the worker raises, the job's record ends in FAILURE with an
\* error that is not null; when it returns, the record ends in SUCCESS with
\* its result; the submitting handler's response is not touched, and the
\* status query reports the record as it is.
C28_FailureIsRecorded ==
    [][\A t \in TaskIds :
          /\ WorkerRaises(t) =>
                /\ celery_tasks'[t].exists
                /\ celery_tasks'[t].status = "FAILURE"
                /\ celery_tasks'[t].error # NoneStr
          /\ WorkerReturns(t) =>
                /\ celery_tasks'[t].exists
                /\ celery_tasks'[t].status = "SUCCESS"
                /\ celery_tasks'[t].result # NoneStr
          /\ (WorkerRaises(t) \/ WorkerReturns(t)) => api' = api
          /\ (celery_tasks[t].exists /\ get_generation_status(t)) =>
                /\ resp'.status = 200
                /\ resp'.body.status = celery_tasks[t].status
                /\ resp'.body.result = celery_tasks[t].result
                /\ resp'.body.error = celery_tasks[t].error]_vars

\* ======================================================================
\* Properties of the experience utilities (UtilSpec)
\* ======================================================================
ReturnedBy(f) == ret[f]

\* k is the integer nearest to hundredths / 100, the even one at a half
NearestInteger(k, hundredths) ==
    LET twice == IF 100 * k >= hundredths
                 THEN 2 * (100 * k - hundredths)
                 ELSE 2 * (hundredths - 100 * k)
    IN  twice <= 100 /\ (twice = 100 => k % 2 = 0)

\* C13: for every total >= 0 and every valid distribution the counts are
\* easy = round(total * easy), medium = round(total * medium) and
\* hard = total - easy - medium, so they sum exactly to total; total 15
\* with 0.2/0.5/0.3 gives 3/8/4.
C13_DifficultyCountsSumToTotal ==
    \A r \in ReturnedBy("calculate_question_count_per_difficulty") :
       LET total == args.total_questions
           d == args.difficulty_distribution
       IN  validate_difficulty_distribution(d) =>
              /\ NearestInteger(r.easy, total * d.easy)
              /\ NearestInteger(r.medium, total * d.medium)
              /\ r.hard = total - r.easy - r.medium
              /\ r.easy + r.medium + r.hard = total
              /\ (total = 15 /\ d = [easy |-> 20, medium |-> 50, hard |-> 30])
                    => r = [easy |-> 3, medium |-> 8, hard |-> 4]

\* the example of the claim has been computed, the half 7.5 going to 8
C13_Witness ==
    /\ args.total_questions = 15
    /\ args.difficulty_distribution = [easy |-> 20, medium |-> 50, hard |-> 30]
    /\ ReturnedBy("calculate_question_count_per_difficulty")
          = {[easy |-> 3, medium |-> 8, hard |-> 4]}

\* the band table as the specification states it
BandRow(years) ==
    IF years <= 3
    THEN [distribution |-> [easy |-> 100, medium |-> 0, hard |-> 0],
          threshold |-> 60, label |-> "junior"]
    ELSE IF years <= 6
    THEN [distribution |-> [easy |-> 20, medium |-> 70, hard |-> 10],
          threshold |-> 70, label |-> "mid-level"]
    ELSE IF years <= 11
    THEN [distribution |-> [easy |-> 0, medium |-> 50, hard |-> 50],
          threshold |-> 75, label |-> "senior"]
    ELSE [distribution |-> [easy |-> 0, medium |-> 30, hard |-> 70],
          threshold |-> 80, label |-> "expert"]

\* C17: for every integer years >= 0 the distribution, the passing
\* threshold and the label all come from the same band row (0-3, 4-6, 7-11,
\* 12-50 and beyond).
C17_BandRowIsConsistent ==
    args.fn = "band" =>
       LET row == BandRow(args.experience_years)
       IN  /\ \A d \in ReturnedBy("get_difficulty_distribution") : d = row.distribution
           /\ \A t \in ReturnedBy("get_passing_score_threshold") : t = row.threshold
           /\ \A l \in ReturnedBy("get_experience_level_label") : l = row.label

\* all three have answered for a candidate past the last band
C17_Witness ==
    /\ args.fn = "band"
    /\ args.experience_years > 50
    /\ ReturnedBy("get_difficulty_distribution") # {}
    /\ ReturnedBy("get_passing_score_threshold") = {80}
    /\ ReturnedBy("get_experience_level_label") = {"expert"}

\* C18: for every experience_years >= 0 the fractions of the band's
\* distribution sum to within 0.01 of 1.0.
C18_BandDistributionSumsToOne ==
    \A d \in ReturnedBy("get_difficulty_distribution") :
       /\ 99 <= d.easy + d.medium + d.hard
       /\ d.easy + d.medium + d.hard <= 101

\* the mid-level band, whose three fractions are all non-zero
C18_Witness ==
    /\ args.experience_years \in 4..6
    /\ \E d \in ReturnedBy("get_difficulty_distribution") :
          d.easy > 0 /\ d.medium > 0 /\ d.hard > 0

IsNumber(s) == s # <<>> /\ \A i \in 1..Len(s) : IsDigit(s[i])

RECURSIVE SumUpTo(_, _)
SumUpTo(f, n) == IF n < 0 THEN 0 ELSE f[n] + SumUpTo(f, n - 1)

\* counts by position 0..n-1: total // n each, one more for exactly the
\* first total % n positions
EvenSplit(counts, total, n) ==
    /\ \A i \in 0..(n - 1) : counts[i] >= total \div n
    /\ \A i, j \in 0..(n - 1) :
          i < j => (counts[i] >= counts[j] /\ counts[i] - counts[j] <= 1)
    /\ Cardinality({i \in 0..(n - 1) : counts[i] = (total \div n) + 1}) = total % n
    /\ SumUpTo(counts, n - 1) = total

\* calculate_question_count_per_skill splits evenly
PerSkillSplitsEvenly ==
    \A counts \in ReturnedBy("calculate_question_count_per_skill") :
       EvenSplit(counts, args.total_questions, args.num_skills)

RECURSIVE SumOfEntries(_, _)
SumOfEntries(dict, keys) ==
    IF keys = {} THEN 0
    ELSE LET k == CHOOSE x \in keys : TRUE
         IN  dict[k] + SumOfEntries(dict, keys \ {k})

\* the question_count entries of skills_config sum to total, and taken by
\* the positions of the list they split evenly
SkillsConfigSplitsEvenly ==
    \A skills_config \in ReturnedBy("generate_questions_with_experience_config") :
       LET n == Len(args.skills)
       IN  /\ SumOfEntries(skills_config, DOMAIN skills_config) = args.total_questions
           /\ EvenSplit([i \in 0..(n - 1) |-> skills_config[args.skills[i + 1]]],
                        args.total_questions, n)

\* C20: for every total >= 0 and every non-empty skill list of length n the
\* per-skill counts are total // n, plus one for exactly the first total % n
\* skills in the given order; they sum to total and differ by at most 1,
\* in calculate_question_count_per_skill and in
\* generate_questions_with_experience_config alike.
C20_PerSkillCountsSumToTotal ==
    PerSkillSplitsEvenly /\ SkillsConfigSplitsEvenly

\* get_adjusted_difficulty_distribution hands the base distribution back
\* when auto_adjust is false
AdjustedDistributionVerbatim ==
    \A d \in ReturnedBy("get_adjusted_difficulty_distribution") :
       ~args.assessment.auto_adjust_by_experience
          => d = ColumnValue(args.assessment.difficulty_distribution)

\* C21: when auto_adjust_by_experience is false the configuration holds
\* exactly the admin-configured difficulty_distribution and
\* passing_score_threshold, for every configured value (a threshold of 0
\* included) and every candidate experience; the band policy has no say.
C21_AdminValuesVerbatim ==
    \A config \in ReturnedBy("get_assessment_config_for_candidate") :
       ~args.assessment.auto_adjust_by_experience =>
          /\ ~config.adjusted_by_experience
          /\ args.assessment.difficulty_distribution.type = "distribution"
                => config.difficulty_distribution
                      = ColumnValue(args.assessment.difficulty_distribution)
          /\ args.assessment.passing_score_threshold # Null
                => config.passing_score_threshold
                      = args.assessment.passing_score_threshold

\* ======================================================================
\* Properties of submit_answer and complete_test_session running together
\* ======================================================================
\* a completed session of a topic test: the batch operations reject it, so
\* only submit_answer and complete_test_session have written to it
CompletedTopicSession(s) ==
    /\ sessions[s].exists
    /\ sessions[s].question_set_id = NoneStr
    /\ sessions[s].is_completed

\* C34: for every interleaving of submit_answer and complete_test_session on
\* one session, once the session is completed its stored correct_answers
\* equals the number of its Answer rows with is_correct = true, and no Answer
\* row is added to the session after its score was computed.
C34_ScoreCoversEveryAnswer ==
    /\ [](\A s \in SessionIds :
            CompletedTopicSession(s) => sessions[s].correct_answers = CorrectCount(s))
    /\ [][\A s \in SessionIds :
            CompletedTopicSession(s) => (CountAnswersOf(s))' = CountAnswersOf(s)]_vars

\* C35: for every interleaving of two concurrent complete requests on one
\* session at most one succeeds: a complete request that commits on a
\* session already completed is rejected, completed_at and the score are
\* written once, and the score release is scheduled at most once.
C35_OneCompletionWins ==
    [][\A s \in SessionIds :
          sessions[s].is_completed =>
             /\ sessions'[s].completed_at = sessions[s].completed_at
             /\ sessions'[s].correct_answers = sessions[s].correct_answers
             /\ sessions'[s].score_percentage = sessions[s].score_percentage
             /\ Len(scheduled'[s]) <= Len(scheduled[s])
             /\ \A p \in Procs :
                   (req[p].op = "complete_test_session" /\ req[p].sid = s
                      /\ complete_test_session_commit(p))
                      => Rejected(resp')]_vars

\* C36: in every reachable state of a completed session,
\* 0 <= correct_answers <= total_questions and 0 <= score_percentage <= 100,
\* whatever answers submit_answer accepted before the completion.
C36_ScoreWithinBounds ==
    \A s \in SessionIds :
       (sessions[s].exists /\ sessions[s].is_completed) =>
          /\ 0 <= sessions[s].correct_answers
          /\ sessions[s].correct_answers <= sessions[s].total_questions
          /\ 0 <= sessions[s].score_percentage.n
          /\ sessions[s].score_percentage.n <= 100 * sessions[s].score_percentage.d

\* ======================================================================
\* Properties of what a candidate can read of a held-back score
\* ======================================================================
\* completed under the delayed policy and not released yet
HiddenScore(s) ==
    sessions[s].exists /\ sessions[s].is_completed /\ ~sessions[s].is_scored

CandidateReads ==
    {"get_test_results", "get_questionset_test_results", "get_session_status",
     "list_my_test_sessions", "get_my_assessments"}

\* what a response of a candidate-facing read says about session s
EntriesAbout(r, s) ==
    IF r.op \in {"list_my_test_sessions", "get_my_assessments"}
    THEN {e \in r.body : e.session_id = s}
    ELSE IF r.session_id = s THEN {r.body} ELSE {}

\* the entry carries no score: the fields are missing or empty
CarriesNoScore(e) ==
    /\ "score_percentage" \in DOMAIN e => e.score_percentage = NullScore
    /\ "correct_answers" \in DOMAIN e => e.correct_answers = Null
    /\ "detailed_results" \notin DOMAIN e

\* C37: while a delayed-policy session is completed but not released, no
\* candidate-facing read (results, session status, the my-sessions list, the
\* my-assessments list) returns its score_percentage or correct_answers, so
\* two sessions that differ only in their hidden score are answered alike.
C37_HiddenScoreIsNotReturned ==
    \A s \in SessionIds :
       (HiddenScore(s) /\ resp.op \in CandidateReads)
          => \A e \in EntriesAbout(resp, s) : CarriesNoScore(e)

\* ======================================================================
\* Properties of the anonymous questionset flow
\* ======================================================================
\* a session the anonymous start created, open for a batch submission
AnonymousOpenSession(s) ==
    /\ sessions[s].exists
    /\ sessions[s].user_id = NoneStr
    /\ sessions[s].question_set_id # NoneStr
    /\ ~sessions[s].is_completed

\* C33: every started session can reach COMPLETED: for a session created by
\* the anonymous start (user_id unset), a batch submission of valid answers
\* through the anonymous submit operation is answered with the result, and
\* it completes the session and records its answers and its score.
C33_AnonymousSessionCompletes ==
    [][\A u \in {Owner, Stranger, NoneStr}, s \in SessionIds :
          (AnonymousOpenSession(s) /\ submit_questionset_answers_anonymous(u, s))
             => /\ resp'.status = 200
                /\ sessions'[s].is_completed
                /\ sessions'[s].is_scored
                /\ sessions'[s].score_percentage # NullScore]_vars

\* no operation completes a session that has no user: the batch and the
\* single-answer operations of authenticated users look the session up by
\* its owner, and the anonymous submit raises
AnonymousSessionStaysOpen ==
    \A s \in SessionIds :
       (sessions[s].exists /\ sessions[s].user_id = NoneStr)
          => (~sessions[s].is_completed /\ AnswersOf(s) = {})

\* ======================================================================
\* Properties of the question payloads delivered at session start
\* ======================================================================
\* the payload has no answer key
OmitsAnswerKey(payload) == "correct_answer" \notin DOMAIN payload

\* the type the payload of this question row must announce
TypeOfTag(question) ==
    IF question.options.tag \in {"coding", "architecture"}
    THEN question.options.tag
    ELSE "mcq"

ProperDistribution(d) ==
    /\ \A k \in {"easy", "medium", "hard"} : 0 <= d[k] /\ d[k] <= 100
    /\ d.easy + d.medium + d.hard = 100

NoNegativeCount(counts) == counts.easy >= 0 /\ counts.medium >= 0 /\ counts.hard >= 0

\* C38: for every total >= 0 and every distribution whose fractions are each
\* in [0, 1] and sum to 1, every count calculate_question_count_per_difficulty
\* returns is >= 0, the remainder given to the last bucket (hard) included;
\* so are the counts in the configuration built for a candidate.
C38_CountsAreNonNegative ==
    /\ \A r \in ReturnedBy("calculate_question_count_per_difficulty") :
          (args.total_questions >= 0 /\ ProperDistribution(args.difficulty_distribution))
             => NoNegativeCount(r)
    /\ \A config \in ReturnedBy("get_assessment_config_for_candidate") :
          (config.total_questions >= 0 /\ ProperDistribution(config.difficulty_distribution))
             => NoNegativeCount(config.question_counts_per_difficulty)

\* ======================================================================
\* Properties of question generation (GenSpec)
\* ======================================================================
\* generate_questions is over, and no collaborator failed: neither the LLM
\* call nor the database commit
EndedWithoutOutsideFault ==
    \/ gen.pc = "returned"
    \/ gen.pc = "raised" /\ gen.exc \notin {"HTTPStatusError", "IntegrityError"}

\* the split of count in mix mode
MixSplit ==
    (gen.mode = "mix" /\ gen.rag_pct \in 0..100 /\ gen.pc \notin {"none", "called"}) =>
       /\ NearestInteger(gen.n_rag, gen.count * gen.rag_pct)
       /\ gen.n_llm = gen.count - gen.n_rag
       /\ 0 <= gen.n_rag /\ gen.n_rag <= gen.count
       /\ 0 <= gen.n_llm /\ gen.n_llm <= gen.count
       /\ gen.rag_passes <= gen.n_rag /\ gen.llm_passes <= gen.n_llm
       /\ Len(questions) <= gen.count

\* C14: in mix mode with count >= 0 and rag_pct in 0..100, generate_questions
\* runs the rag procedure exactly n_rag = round(count * rag_pct / 100) times
\* and the llm procedure exactly n_llm = count - n_rag times, both between 0
\* and count, and never persists more than count items.
C14_MixRunsBothProcedures ==
    /\ MixSplit
    /\ (gen.mode = "mix" /\ gen.rag_pct \in 0..100 /\ EndedWithoutOutsideFault)
          => (gen.rag_passes = gen.n_rag /\ gen.llm_passes = gen.n_llm)

\* C15: each item of the rag procedure that passes the gate is persisted: as
\* an llm fallback (source_type llm, fallback true) when no snippet is left
\* after scope filtering or min_retrieval is set and the best numeric score
\* is below it, and otherwise as a rag item with its snippet ids and top
\* score; no row is marked rag without snippets.
C15_RagItemSourceMatchesStrategy ==
    /\ [](\A i \in 1..Len(questions) :
             questions[i].source_type = "rag"
                => questions[i].source_meta.snippets # <<>>)
    /\ [][(/\ gen.pc = "rag_loop"
           /\ gen'.rag_passes = gen.rag_passes + 1
           /\ ~Dropped(gen'.parsed)
           /\ gen'.exc # "IntegrityError")
             => /\ Len(questions') = Len(questions) + 1
                /\ LET row == questions'[Len(questions')]
                       fallback ==
                          \/ gen'.hits_count = 0
                          \/ /\ gen.min_retrieval # 0
                             /\ gen'.top_score # Null
                             /\ gen'.top_score < gen.min_retrieval
                   IN  IF fallback
                       THEN row.source_type = "llm" /\ row.source_meta.fallback
                       ELSE /\ row.source_type = "rag"
                            /\ row.source_meta.snippets # <<>>
                            /\ row.source_meta.top_score = gen'.top_score]_vars

\* C16: every item generate_questions persisted, in any mode and on any
\* path, passed the quality gate: non-empty question text, options keyed
\* exactly A, B, C, D, and a correct_answer among those labels.
C16_PersistedItemsPassedTheGate ==
    \A i \in 1..Len(questions) :
       LET row == questions[i]
       IN  /\ row.question_text.type = "str"
           /\ \E k \in 1..Len(row.question_text.chars) :
                 ~IsSpace(row.question_text.chars[k])
           /\ row.options.type = "dict"
           /\ row.options.keys = {"A", "B", "C", "D"}
           /\ row.correct_answer.type = "str"
           /\ row.correct_answer.chars \in {<<"A">>, <<"B">>, <<"C">>, <<"D">>}

\* a mix request whose rag items were all dropped by the gate has persisted
\* an item of its llm part
C16_Witness ==
    /\ gen.mode = "mix"
    /\ gen.rag_passes > 0
    /\ Dropped(gen.parsed) = FALSE
    /\ Len(questions) > 0

\* the LLM's answer is malformed: no JSON object can be read from it, or the
\* object lacks a required key, or its text or options have the wrong shape
Malformed(output) ==
    LET readable == output.loads \/ (output.brace /\ output.tail_loads)
        item == output.value.item
    IN  \/ ~readable
        \/ output.value.type # "dict"
        \/ ~AllKeysIn(output.value)
        \/ item.question_text.type # "str"
        \/ item.options.type # "dict" \/ item.options.keys # expected_keys

\* one pass of one of the loops of generate_questions, on the answer llm
GenerationPass(llm) ==
    \/ generate_questions_llm_mode_item(llm)
    \/ generate_questions_llm_item(llm)
    \/ \E retrieved \in Retrievals : generate_questions_rag_item(retrieved, llm)

\* C29: a malformed generation output (not JSON, a JSON value that is not an
\* object, an object lacking a required key or with wrongly shaped options)
\* never makes generate_questions raise: the item is skipped, no row is
\* written for it, and the call goes on with the next item.
C29_MalformedOutputIsSkipped ==
    [][\A llm \in LlmOutcomes :
          (~llm.raised /\ Malformed(llm.output) /\ GenerationPass(llm))
             => /\ gen'.pc # "raised"
                /\ questions' = questions
                /\ gen'.rag_passes + gen'.llm_passes
                      = gen.rag_passes + gen.llm_passes + 1]_vars

\* LLM calls made so far: one per pass of a loop
LlmCalls == gen.rag_passes + gen.llm_passes

\* C30: generate_questions with count = n in mode rag or llm makes exactly n
\* LLM calls, one per item: an item that fails is dropped and not tried again,
\* the call ends by returning, and the ids it returns are as many as the
\* items that passed the gate, at most n.
C30_OneCallPerItem ==
    /\ []((gen.mode \in {"rag", "llm"} /\ gen.pc # "none")
            => (LlmCalls <= gen.count /\ Len(questions) <= LlmCalls))
    /\ []((gen.mode \in {"rag", "llm"} /\ EndedWithoutOutsideFault)
            => (gen.pc = "returned" /\ LlmCalls = gen.count))
    /\ [][(gen.mode \in {"rag", "llm"} /\ LlmCalls' = LlmCalls + 1
             /\ gen'.exc \notin {"HTTPStatusError", "IntegrityError"})
            => Len(questions') =
                  Len(questions) + (IF Dropped(gen'.parsed) THEN 0 ELSE 1)]_vars

\* a pass of one of the LLM-only loops: mode llm, or the n_llm items of mix
LlmProcedurePass(llm) ==
    \/ generate_questions_llm_mode_item(llm)
    \/ generate_questions_llm_item(llm)

\* C31: every item persisted by the llm-mode procedure (mode llm, and the
\* n_llm items of mode mix) is stored with source_type = llm.
C31_LlmItemsAreMarkedLlm ==
    [][\A llm \in LlmOutcomes :
          (LlmProcedurePass(llm) /\ Len(questions') = Len(questions) + 1)
             => questions'[Len(questions')].source_type = "llm"]_vars

\* C39: for every count >= 0 and every integer rag_pct, below 0 and above 100
\* included, a mix-mode call of generate_questions makes at most count
\* generation attempts in total and persists at most count items.
C39_MixAttemptsWithinCount ==
    (gen.mode = "mix" /\ gen.pc \notin {"none", "called"}) =>
       /\ LlmCalls <= gen.count
       /\ Len(questions) <= gen.count

\* ======================================================================
\* Properties of recorded answers on every submission path
\* ======================================================================
\* a step keeps every row of the answers table, with its selected_answer
AnswerRowsKeepTheirValue ==
    \A a \in BagToSet(answers) : CopiesIn(a, answers') >= CopiesIn(a, answers)

\* a step keeps every answer of every in-memory session
StoreAnswersKeepTheirValue ==
    \A s \in StoreSessionIds :
       \A k \in DOMAIN test_sessions[s].answers :
          /\ k \in DOMAIN test_sessions'[s].answers
          /\ test_sessions'[s].answers[k] = test_sessions[s].answers[k]

\* the answers table, under the steps of the database-backed sessions
AnswerRowsNeverChange == [][AnswerRowsKeepTheirValue]_vars

\* C24: once an answer is recorded for a (session, question) pair its
\* selected_answer never changes, in the answers table and in the in-memory
\* /submit-answer/ store alike: a resubmission for the same pair is rejected
\* and the first value stays.
C24_RecordedAnswerNeverChanges ==
    [][/\ AnswerRowsKeepTheirValue
       /\ StoreAnswersKeepTheirValue
       /\ \A s \in StoreSessionIds, q \in 1..3, v \in {"A", "B", "E"} :
             (str(q) \in DOMAIN test_sessions[s].answers /\ submit_answer(s, q, v))
                => (out'.status = 400 /\ test_sessions' = test_sessions)]_vars

====
